---- MODULE Spec2Model ----
(***************************************************************************)
(* Song-request bot, SQLite-backed server (src/index.js lines 911-1263).   *)
(* The in-memory state (songQueue, songHistory, playedToday,               *)
(* activeConfirmations), the two SQLite tables, the fire-and-forget        *)
(* database writes in flight, the handler tasks suspended on an await,     *)
(* the wall clock and the daily reset timer.                               *)
(***************************************************************************)
EXTENDS Integers, Sequences, FiniteSets, TLC

\* ---------------------------------------------------------------- bounds
\* Events that arrive from outside in one behaviour: chat messages,
\* postbacks, display-client messages, steps of the clock and restarts.
\* The steps in which a suspended handler resumes, the database executes a
\* statement or the timer fires are not counted: the events before them
\* bound them.
MaxEvents == 5

\* ---------------------------------------------------------------- inputs
Users == {"u1", "u2"}

\* lineClient.getProfile(userId).displayName
DisplayName(u) == IF u = "u1" THEN "Ann" ELSE "Bob"

NoImage == "none"
Placeholder == "https://via.placeholder.com/150"

\* Tracks the search provider can return as items[0]: a name, the list of
\* artist names and the first album image (or none).  The two tracks share
\* the name and differ in the artist string.
Tracks ==
    { [name |-> "A", artists |-> <<"X">>, image |-> "imgA"],
      [name |-> "A", artists |-> <<"X", "Y">>, image |-> NoImage] }

\* track.artists.map(a => a.name).join(', '): the display string is kept as
\* the sequence of its pieces, the separator ", " being a piece of its own.
RECURSIVE JoinArtists(_)
JoinArtists(as) ==
    IF Len(as) = 0 THEN <<>>
    ELSE IF Len(as) = 1 THEN <<as[1]>>
    ELSE <<as[1], ", ">> \o JoinArtists(Tail(as))

\* songData built from the first search item
SongData(track) ==
    [name |-> track.name,
     artist |-> JoinArtists(track.artists),
     albumArt |-> IF track.image = NoImage THEN Placeholder ELSE track.image]

\* Text messages, as sequences of characters.  The last two are song names.
Texts ==
    { <<"n", "o">>,
      <<"N", "o">>,
      <<" ", "N", "O", " ">>,
      <<"N", "o", ",", " ", "s", "e", "a", "r", "c", "h", " ", "a", "g", "a", "i", "n">>,
      <<"N", "O", ",", " ", "S", "E", "A", "R", "C", "H", " ", "A", "G", "A", "I", "N">>,
      <<"n", "o", "w">>,
      <<"S", "o", "n", "g">> }

\* String.prototype.trim
RECURSIVE TrimStart(_)
TrimStart(text) ==
    IF text # <<>> /\ Head(text) = " " THEN TrimStart(Tail(text)) ELSE text

RECURSIVE TrimEnd(_)
TrimEnd(text) ==
    IF text # <<>> /\ text[Len(text)] = " "
    THEN TrimEnd(SubSeq(text, 1, Len(text) - 1))
    ELSE text

Trim(text) == TrimEnd(TrimStart(text))

\* String.prototype.toLowerCase, on the characters of Texts
LowerOf(c) ==
    CASE c = "A" -> "a" [] c = "C" -> "c" [] c = "E" -> "e" [] c = "G" -> "g"
      [] c = "H" -> "h" [] c = "I" -> "i" [] c = "N" -> "n" [] c = "O" -> "o"
      [] c = "R" -> "r" [] c = "S" -> "s" [] OTHER -> c

ToLowerCase(text) == [i \in DOMAIN text |-> LowerOf(text[i])]

\* Mutant of IsRejection: the query is compared as typed
IsRejection_CaseSensitive(query) ==
    \/ query = <<"n", "o", ",", " ", "s", "e", "a", "r", "c", "h", " ", "a", "g", "a", "i", "n">>
    \/ query = <<"n", "o">>

\* query.toLowerCase() === 'no, search again' || query.toLowerCase() === 'no'
IsRejection(query) ==
    \/ ToLowerCase(query) =
          <<"n", "o", ",", " ", "s", "e", "a", "r", "c", "h", " ", "a", "g", "a", "i", "n">>
    \/ ToLowerCase(query) = <<"n", "o">>

NoToken == 0

VARIABLES
    songQueue,            \* let songQueue = []
    songHistory,          \* let songHistory = []
    playedToday,          \* let playedToday = []
    activeConfirmations,  \* const activeConfirmations = {}
    dbHistory,            \* table song_history (collection of Song documents), in insertion order
    dbPending,            \* table pending_songs, rows in rowid order
    dbOps,                \* db.run statements issued and not yet executed
    confirms,             \* postback tasks suspended on getProfile
    redeemed,             \* (identity, confirmationId) pairs that passed the check
    searches,             \* search tasks suspended on searchTracks
    cards,                \* confirmation cards sent to users
    nextToken,            \* next fresh uuidv4 used as confirmationId
    nextId,               \* next fresh uuidv4 used as queue entry id
    day,                  \* local calendar day of the wall clock
    ms,                   \* the millisecond the wall clock shows: the timestamp taken in it, whether it is the last of the day
    timer,                \* the pending reset timeouts, each the day whose start it waits for
    restarts,             \* process restarts so far
    events,               \* events arrived so far
    out,                  \* reply and broadcast of the last handler step
    display,              \* the update_queue snapshot emitted last, if any
    backend,              \* the history store the server was built with
    plays,                \* song_played tasks suspended on songLog.save()
    lookups,              \* search tasks suspended on Song.findOne()
    phase,                \* the process: "starting", "listening", "exited", "stalled"
    store,                \* the persistence target: "ok", "fresh" (a database file just created) or "unreachable"
    sheet,                \* let sheet: "loading", "ready", "failed"; "none" without Sheets
    wall,                 \* the instant in hours since a UTC midnight and the host's UTC offset
    renewal,              \* the provider credential: "fetching", "scheduled" or "stopped"
    requests              \* GET /api/stats handlers suspended on an await

vars == <<songQueue, songHistory, playedToday, activeConfirmations, dbHistory,
          dbPending, dbOps, confirms, redeemed, searches, cards, nextToken,
          nextId, day, ms, timer, restarts, events, out, display, backend, plays,
          lookups, phase, store, sheet, wall, renewal, requests>>

mem == <<songQueue, songHistory, playedToday, activeConfirmations>>
db == <<dbHistory, dbPending, dbOps>>
clock == <<day, ms, timer, restarts>>
mongo == <<backend, plays, lookups>>
boot == <<phase, store, sheet>>
aside == <<wall, renewal, requests>>

\* An event arrives at the listening server / a step of it that is no arrival
Arrival ==
    /\ phase = "listening"
    /\ events < MaxEvents
    /\ events' = events + 1
    /\ UNCHANGED <<boot, aside>>
Internal ==
    /\ phase = "listening"
    /\ events' = events
    /\ UNCHANGED <<boot, aside>>

\* ---------------------------------------------------------------- helpers
\* Mutant of FilterOutId: the entries kept are collected last to first
RECURSIVE FilterOutId_Reversed(_, _)
FilterOutId_Reversed(q, songId) ==
    IF q = <<>> THEN <<>>
    ELSE IF Head(q).id # songId
         THEN FilterOutId_Reversed(Tail(q), songId) \o <<Head(q)>>
         ELSE FilterOutId_Reversed(Tail(q), songId)

\* array.filter(pred) for pred = (song.id !== songId)
RECURSIVE FilterOutId(_, _)
FilterOutId(q, songId) ==
    IF q = <<>> THEN <<>>
    ELSE IF Head(q).id # songId
         THEN <<Head(q)>> \o FilterOutId(Tail(q), songId)
         ELSE FilterOutId(Tail(q), songId)

\* songQueue.find(song => song.id === songId): the first match, as a
\* sequence of length 0 (undefined) or 1
RECURSIVE FindById(_, _)
FindById(q, songId) ==
    IF q = <<>> THEN <<>>
    ELSE IF Head(q).id = songId THEN <<Head(q)>>
         ELSE FindById(Tail(q), songId)

\* Mutant of hasBeenPlayedToday: the artist is not compared
hasBeenPlayedToday_NameOnly(songName, artistName) ==
    \E i \in DOMAIN playedToday : playedToday[i].name = songName

\* playedToday.some(song => song.name === songName && song.artist === artistName)
hasBeenPlayedToday(songName, artistName) ==
    \E i \in DOMAIN playedToday :
        playedToday[i].name = songName /\ playedToday[i].artist = artistName

\* Mutant of isDuplicateInQueue: the scan is dropped
isDuplicateInQueue_Never(q, songData) == FALSE

\* Mutant of isDuplicateInQueue: a pair played today counts as queued
isDuplicateInQueue_OrPlayedToday(q, songData) ==
    \/ \E i \in DOMAIN q : q[i].name = songData.name /\ q[i].artist = songData.artist
    \/ hasBeenPlayedToday(songData.name, songData.artist)

\* songQueue.some(song => song.name === songData.name && song.artist === songData.artist)
isDuplicateInQueue(q, songData) ==
    \E i \in DOMAIN q : q[i].name = songData.name /\ q[i].artist = songData.artist

\* Mutant of ConfirmationExpired: only the presence of an entry is tested
ConfirmationExpired_PresenceOnly(ac, userId, confirmationId) == ac[userId] = NoToken

\* !activeConfirmations[userId] || activeConfirmations[userId] !== confirmationId
ConfirmationExpired(ac, userId, confirmationId) ==
    ac[userId] = NoToken \/ ac[userId] # confirmationId

\* Mutant of RedeemConfirmation: the entry is not deleted
RedeemConfirmation_Kept(ac, userId) == ac

\* the registry after a postback passed the check: delete activeConfirmations[userId]
RedeemConfirmation(ac, userId) == [ac EXCEPT ![userId] = NoToken]

\* Mutant of IssueConfirmation: an entry already stored is not overwritten
IssueConfirmation_KeepFirst(ac, userId, confirmationId) ==
    IF ac[userId] = NoToken THEN [ac EXCEPT ![userId] = confirmationId] ELSE ac

\* the registry after a search found a track: activeConfirmations[userId] = confirmationId
IssueConfirmation(ac, userId, confirmationId) ==
    [ac EXCEPT ![userId] = confirmationId]

\* ---------------------------------------------------------------- outputs
\* What the last step sent: the reply to the chat user, the update_queue
\* snapshots emitted, the postback task that finished in the step and the
\* display-client message it handled.
\* A reply goes to the sender of the event (event.replyToken): user is that
\* sender, cid the confirmationId of the postback answered (0 for a text
\* message), name the track title the text quotes.
NoReply == [kind |-> "none", user |-> "-", cid |-> 0, name |-> "-"]
Reply(kind, user, cid, name) == [kind |-> kind, user |-> user, cid |-> cid, name |-> name]

\* The display-client message handled in the step: its name, the id it
\* carries and whether songQueue held an entry with that id
NoEvent == [kind |-> "none", id |-> 0, found |-> FALSE]
DisplayEvent(kind, songId, q) ==
    [kind |-> kind, id |-> songId, found |-> \E i \in DOMAIN q : q[i].id = songId]

Out(reply, emit) ==
    [reply |-> reply, emit |-> emit, done |-> <<>>, event |-> NoEvent, body |-> <<>>]
OutDone(reply, emit, task) ==
    [reply |-> reply, emit |-> emit, done |-> <<task>>, event |-> NoEvent, body |-> <<>>]
OutDisplay(emit, event) ==
    [reply |-> NoReply, emit |-> emit, done |-> <<>>, event |-> event, body |-> <<>>]
\* The step answered an HTTP request with the JSON body
OutStats(body) ==
    [reply |-> NoReply, emit |-> <<>>, done |-> <<>>, event |-> NoEvent, body |-> <<body>>]
Silent == Out(NoReply, <<>>)

\* ---------------------------------------------------------------- database
\* db.run statements: the statement kind, the id it names, the row it
\* carries (if any) and, for the history row, its timestamp: the day and
\* the instant, the instants numbered in the order of the calls of
\* new Date().  copy tells statements in flight apart that are equal in
\* everything else.
AddPendingOp(song) ==
    [op |-> "addPending", id |-> song.id, row |-> <<song>>, day |-> 0, instant |-> 0,
     copy |-> 0]
RemovePendingOp(songId) ==
    [op |-> "removePending", id |-> songId, row |-> <<>>, day |-> 0, instant |-> 0,
     copy |-> 0]
AddHistoryOp(song, d, t) ==
    [op |-> "addHistory", id |-> song.id, row |-> <<song>>, day |-> d, instant |-> t,
     copy |-> 0]

\* The statements in flight that are the statement o, issued again
Copies(ops, o) == {p \in ops : [p EXCEPT !.copy = 0] = [o EXCEPT !.copy = 0]}

\* db.run(o): the statement joins those in flight, also when an equal
\* statement is in flight already
Issue(ops, o) == ops \cup {[o EXCEPT !.copy = Cardinality(Copies(ops, o))]}

\* The timestamp of a millisecond later than those of every row written
\* and of every INSERT in flight
NextInstant(table, ops) ==
    LET used == {0} \cup {table[k].instant : k \in DOMAIN table}
                    \cup {o.instant : o \in ops}
    IN  1 + CHOOSE t \in used : \A v \in used : v <= t

\* A millisecond of the wall clock in which no timestamp has been taken
Fresh == [stamp |-> 0, eve |-> FALSE]

\* new Date().toISOString() has millisecond resolution: the timestamp
\* taken before in the millisecond the clock shows, or else a later one
Timestamp(m, table, ops) ==
    IF m.stamp # 0 THEN m.stamp ELSE NextInstant(table, ops)

HasId(table, id) == \E i \in DOMAIN table : table[i].id = id

\* INSERT INTO pending_songs ...: id is the PRIMARY KEY, a second row with
\* the same id is rejected (the error is only logged)
InsertPending(table, song) ==
    IF HasId(table, song.id) THEN table ELSE Append(table, song)

\* INSERT INTO song_history (id, timestamp, name, artist, userName)
InsertHistory(table, song, d, t) ==
    IF HasId(table, song.id) THEN table
    ELSE Append(table, [id |-> song.id, day |-> d, instant |-> t, name |-> song.name,
                        artist |-> song.artist, userName |-> song.userName])

\* SQLite has no boolean type: true is stored as 1 and false as 0, and
\* loadPendingSongsFromDb turns the stored number back with !!
ToSqlBool(b) == IF b THEN 1 ELSE 0
FromSqlBool(n) == n # 0

PendingRow(song) == [song EXCEPT !.wasPlayedToday = ToSqlBool(song.wasPlayedToday)]

\* INSERT INTO pending_songs ... as executed by the database
ExecAddPending(table, song) == InsertPending(table, PendingRow(song))

\* DELETE FROM pending_songs WHERE id = ?
ExecRemovePending(table, songId) == FilterOutId(table, songId)

\* rows.map(row => ({ ...row, wasPlayedToday: !!row.wasPlayedToday }))
LoadedQueue(table) ==
    [i \in DOMAIN table |->
        [table[i] EXCEPT !.wasPlayedToday = FromSqlBool(table[i].wasPlayedToday)]]

\* ORDER BY timestamp ASC: the row with the earliest timestamp first
RECURSIVE OrderByTimestamp(_)
OrderByTimestamp(table) ==
    IF table = <<>> THEN <<>>
    ELSE LET first == CHOOSE k \in DOMAIN table :
                          /\ \A j \in DOMAIN table : table[k].instant <= table[j].instant
                          /\ \A j \in 1..(k - 1) : table[j].instant # table[k].instant
         IN  <<table[first]>>
                \o OrderByTimestamp(SubSeq(table, 1, first - 1)
                                        \o SubSeq(table, first + 1, Len(table)))

\* SELECT name, artist, userName FROM song_history ORDER BY timestamp ASC
LoadedHistory(table) ==
    LET rows == OrderByTimestamp(table)
    IN  [i \in DOMAIN rows |->
            [name |-> rows[i].name, artist |-> rows[i].artist,
             userName |-> rows[i].userName]]

\* A server before its first event, its queue and its history apart
Idle ==
    /\ playedToday = <<>>
    /\ activeConfirmations = [u \in Users |-> NoToken]
    /\ dbOps = {}
    /\ confirms = <<>>
    /\ redeemed = {}
    /\ searches = <<>>
    /\ cards = {}
    /\ nextToken = 1
    /\ day = 0
    /\ ms = Fresh
    /\ restarts = 0
    /\ events = 0
    /\ out = Silent
    /\ display = <<>>
    /\ plays = <<>>
    /\ lookups = <<>>
    /\ requests = <<>>

\* The memory and the stores of a server before its first event, the
\* stores empty
Start ==
    /\ Idle
    /\ songQueue = <<>>
    /\ dbPending = <<>>
    /\ songHistory = <<>>
    /\ dbHistory = <<>>
    /\ nextId = 1

\* The server listens, its persistence target reached
Listening == phase = "listening" /\ store = "ok" /\ sheet = "none"

\* The hour of the day and the provider credential are not followed
NoWall == [now |-> 0, offset |-> 0]
Unobserved == wall = NoWall /\ renewal = "unobserved"

\* The SQLite-backed server after its startup: scheduleDailyReset has set
\* the timeout for the next midnight
Init == Start /\ Listening /\ Unobserved /\ backend = "sqlite" /\ timer = {1}

\* ---------------------------------------------------------------- chat events
\* The search tasks with rejected set to b in those of identity u
Flagged(s, u, b) ==
    [k \in DOMAIN s |-> IF s[k].user = u THEN [s[k] EXCEPT !.rejected = b] ELSE s[k]]

\* A text message that is not a rejection: the handler suspends on
\* spotifyApi.searchTracks(query, { limit: 1 }).  The tasks are kept in the
\* order in which the messages arrived; late says that a message the same
\* identity sent later has been answered with a card, and rejected that the
\* identity's rejection was handled after the message arrived and that the
\* identity has sent no search since.
Search(u, text) ==
    /\ Arrival
    /\ searches' = Append(Flagged(searches, u, FALSE),
                          [user |-> u, late |-> FALSE, rejected |-> FALSE])
    /\ out' = Silent
    /\ Trim(text) # <<>>
    /\ ~IsRejection(Trim(text))
    /\ UNCHANGED <<mongo, display, mem, db, confirms, redeemed, cards, nextToken, nextId, clock>>

RemoveAt(s, i) == SubSeq(s, 1, i - 1) \o SubSeq(s, i + 1, Len(s))

\* searchTracks rejects: the catch block replies with an error text
SearchFailed(i) ==
    /\ Internal
    /\ i \in DOMAIN searches
    /\ searches' = RemoveAt(searches, i)
    /\ out' = Out(Reply("error", searches[i].user, 0, "-"), <<>>)
    /\ UNCHANGED <<mongo, display, mem, db, confirms, redeemed, cards, nextToken, nextId, clock>>

\* Mutant of SearchEmpty: the stored confirmation is deleted
SearchEmpty_DropsToken(i) ==
    /\ Internal
    /\ i \in DOMAIN searches
    /\ searches' = RemoveAt(searches, i)
    /\ activeConfirmations' = RedeemConfirmation(activeConfirmations, searches[i].user)
    /\ out' = Out(Reply("notfound", searches[i].user, 0, "-"), <<>>)
    /\ UNCHANGED <<mongo, display, songQueue, songHistory, playedToday, db, confirms,
                   redeemed, cards, nextToken, nextId, clock>>

\* searchTracks resolves with no item
SearchEmpty(i) ==
    /\ Internal
    /\ i \in DOMAIN searches
    /\ searches' = RemoveAt(searches, i)
    /\ out' = Out(Reply("notfound", searches[i].user, 0, "-"), <<>>)
    /\ UNCHANGED <<mongo, display, mem, db, confirms, redeemed, cards, nextToken, nextId, clock>>

\* the postback payload { ...songData, confirmationId, wasPlayedToday }
Card(u, songData, confirmationId, wasPlayed) ==
    [user |-> u, confirmationId |-> confirmationId, name |-> songData.name,
     artist |-> songData.artist, albumArt |-> songData.albumArt,
     wasPlayedToday |-> wasPlayed]

\* The search tasks when task j is answered with a card: the tasks of the
\* same identity that arrived before it are late
Overtaken(s, j) ==
    [k \in DOMAIN s |->
        IF k < j /\ s[k].user = s[j].user THEN [s[k] EXCEPT !.late = TRUE] ELSE s[k]]

\* searchTracks resolves with a track: a confirmation is issued and the
\* card is sent
SearchFound(i, track) ==
    /\ Internal
    /\ i \in DOMAIN searches
    /\ LET u == searches[i].user
           songData == SongData(track)
           wasPlayed == hasBeenPlayedToday(songData.name, songData.artist)
           confirmationId == nextToken
       IN  /\ activeConfirmations' =
                  IssueConfirmation(activeConfirmations, u, confirmationId)
           /\ cards' = cards \cup {Card(u, songData, confirmationId, wasPlayed)}
           /\ out' = Out(Reply("card", u, 0, songData.name), <<>>)
    /\ nextToken' = nextToken + 1
    /\ searches' = RemoveAt(Overtaken(searches, i), i)
    /\ UNCHANGED <<mongo, display, songQueue, songHistory, playedToday, db, confirms, redeemed,
                   nextId, clock>>

\* 'no' / 'no, search again'
Reject(u, text) ==
    /\ Arrival
    /\ out' = Out(Reply("prompt", u, 0, "-"), <<>>)
    /\ activeConfirmations' = RedeemConfirmation(activeConfirmations, u)
    /\ searches' = Flagged(searches, u, TRUE)
    /\ Trim(text) # <<>>
    /\ IsRejection(Trim(text))
    /\ UNCHANGED <<mongo, display, songQueue, songHistory, playedToday, db, confirms, redeemed,
                   cards, nextToken, nextId, clock>>

\* A postback whose confirmationId is not the one stored for the sender
ConfirmExpired(u, c) ==
    /\ Arrival
    /\ ConfirmationExpired(activeConfirmations, u, c.confirmationId)
    /\ out' = Out(Reply("expired", u, c.confirmationId, "-"), <<>>)
    /\ UNCHANGED <<mongo, display, mem, db, confirms, redeemed, searches, cards, nextToken,
                   nextId, clock>>

\* A postback that passes the check: the confirmation is deleted and the
\* handler suspends on lineClient.getProfile(userId).  peer is the id of the
\* entry that a task of another identity appends for the same (name, artist)
\* while this task is suspended (0: none).
ConfirmAccepted(u, c) ==
    /\ Arrival
    /\ ~ConfirmationExpired(activeConfirmations, u, c.confirmationId)
    /\ activeConfirmations' = RedeemConfirmation(activeConfirmations, u)
    /\ redeemed' = redeemed \cup {<<u, c.confirmationId>>}
    /\ confirms' = Append(confirms,
            [user |-> u, confirmationId |-> c.confirmationId,
             songData |-> [name |-> c.name, artist |-> c.artist,
                           albumArt |-> c.albumArt,
                           wasPlayedToday |-> c.wasPlayedToday],
             peer |-> 0])
    /\ out' = Silent
    /\ UNCHANGED <<mongo, display, songQueue, songHistory, playedToday, db, searches, cards,
                   nextToken, nextId, clock>>

\* The postback branch up to the await
Confirm(u, c) == ConfirmExpired(u, c) \/ ConfirmAccepted(u, c)

\* Mutant of ProfileFailed: the catch block stores the confirmation again
ProfileFailed_Restored(i) ==
    /\ Internal
    /\ i \in DOMAIN confirms
    /\ confirms' = RemoveAt(confirms, i)
    /\ activeConfirmations' = IssueConfirmation(activeConfirmations, confirms[i].user,
                                                confirms[i].confirmationId)
    /\ out' = OutDone(NoReply, <<>>, confirms[i])
    /\ UNCHANGED <<mongo, display, songQueue, songHistory, playedToday, db, redeemed,
                   searches, cards, nextToken, nextId, clock>>

\* getProfile rejects: the catch block logs and resolves null
ProfileFailed(i) ==
    /\ Internal
    /\ i \in DOMAIN confirms
    /\ confirms' = RemoveAt(confirms, i)
    /\ out' = OutDone(NoReply, <<>>, confirms[i])
    /\ UNCHANGED <<mongo, display, mem, db, redeemed, searches, cards, nextToken, nextId, clock>>

\* getProfile resolves and the pair is already queued
ProfileDuplicate(i) ==
    /\ Internal
    /\ i \in DOMAIN confirms
    /\ isDuplicateInQueue(songQueue, confirms[i].songData)
    /\ confirms' = RemoveAt(confirms, i)
    /\ out' = OutDone(Reply("duplicate", confirms[i].user, confirms[i].confirmationId,
                            confirms[i].songData.name),
                      <<>>, confirms[i])
    /\ UNCHANGED <<mongo, display, mem, db, redeemed, searches, cards, nextToken, nextId, clock>>

\* songQueue.push(newSong)
Push(q, song) == Append(q, song)

\* Mutant of NewSong: the id is not a fresh one
NewSong_FixedId(id, songData, userName) ==
    [id |-> 1, name |-> songData.name, artist |-> songData.artist,
     albumArt |-> songData.albumArt, wasPlayedToday |-> songData.wasPlayedToday,
     userName |-> userName]

\* Mutant of NewSong: the flag is computed anew when the entry is built
NewSong_Recomputed(id, songData, userName) ==
    [id |-> id, name |-> songData.name, artist |-> songData.artist,
     albumArt |-> songData.albumArt,
     wasPlayedToday |-> hasBeenPlayedToday(songData.name, songData.artist),
     userName |-> userName]

\* newSong = { id: uuidv4(), ...songData fields, userName }
NewSong(id, songData, userName) ==
    [id |-> id, name |-> songData.name, artist |-> songData.artist,
     albumArt |-> songData.albumArt, wasPlayedToday |-> songData.wasPlayedToday,
     userName |-> userName]

SamePair(a, b) == a.name = b.name /\ a.artist = b.artist

\* the tasks left suspended when task i has appended the entry id
MarkPeers(i, id) ==
    LET rest == RemoveAt(confirms, i)
    IN  [j \in DOMAIN rest |->
            IF /\ SamePair(rest[j].songData, confirms[i].songData)
               /\ rest[j].user # confirms[i].user
               /\ rest[j].peer = 0
            THEN [rest[j] EXCEPT !.peer = id]
            ELSE rest[j]]

\* Mutant of ProfileAdded: the duplicate check reads the queue as it was
\* before the await, without the entry a racing task appended since
ProfileAdded_CheckedBeforeAwait(i) ==
    /\ Internal
    /\ i \in DOMAIN confirms
    /\ ~isDuplicateInQueue(FilterOutId(songQueue, confirms[i].peer),
                           confirms[i].songData)
    /\ LET newSong == NewSong(nextId, confirms[i].songData,
                              DisplayName(confirms[i].user))
       IN  /\ songQueue' = Push(songQueue, newSong)
           /\ dbOps' = Issue(dbOps, AddPendingOp(newSong))
           /\ display' = <<songQueue'>>
           /\ out' = OutDone(Reply("added", confirms[i].user, confirms[i].confirmationId,
                                   newSong.name),
                             <<songQueue'>>, confirms[i])
    /\ confirms' = MarkPeers(i, nextId)
    /\ nextId' = nextId + 1
    /\ UNCHANGED <<mongo, songHistory, playedToday, activeConfirmations, dbHistory,
                   dbPending, redeemed, searches, cards, nextToken, clock>>

\* getProfile resolves and the pair is not queued: push, persist, broadcast, reply
ProfileAdded(i) ==
    /\ Internal
    /\ i \in DOMAIN confirms
    /\ ~isDuplicateInQueue(songQueue, confirms[i].songData)
    /\ LET newSong == NewSong(nextId, confirms[i].songData,
                              DisplayName(confirms[i].user))
       IN  /\ songQueue' = Push(songQueue, newSong)
           /\ dbOps' = Issue(dbOps, AddPendingOp(newSong))
           /\ display' = <<songQueue'>>
           /\ out' = OutDone(Reply("added", confirms[i].user, confirms[i].confirmationId,
                                   newSong.name),
                             <<songQueue'>>, confirms[i])
    /\ confirms' = MarkPeers(i, nextId)
    /\ nextId' = nextId + 1
    /\ UNCHANGED <<mongo, songHistory, playedToday, activeConfirmations, dbHistory,
                   dbPending, redeemed, searches, cards, nextToken, clock>>

\* ---------------------------------------------------------------- display events
\* ids a display client can send: the ones it has been shown
Shown == 1..(nextId - 1)

\* io.on('connection'): the queue is sent to the client that connected
Connect ==
    /\ Arrival
    /\ display' = <<songQueue>>
    /\ out' = OutDisplay(<<songQueue>>, [kind |-> "connection", id |-> 0, found |-> FALSE])
    /\ UNCHANGED <<mem, db, mongo, confirms, redeemed, searches, cards, nextToken,
                   nextId, clock>>

\* Mutant of DeleteSong: the queue is not broadcast after the removal
DeleteSong_NoBroadcast(songId) ==
    /\ Arrival
    /\ songQueue' = FilterOutId(songQueue, songId)
    /\ dbOps' = Issue(dbOps, RemovePendingOp(songId))
    /\ out' = OutDisplay(<<>>, DisplayEvent("delete_song", songId, songQueue))
    /\ UNCHANGED <<mongo, display, songHistory, playedToday, activeConfirmations,
                   dbHistory, dbPending, confirms, redeemed, searches, cards,
                   nextToken, nextId, clock>>

\* socket.on('delete_song')
DeleteSong(songId) ==
    /\ Arrival
    /\ songQueue' = FilterOutId(songQueue, songId)
    /\ dbOps' = Issue(dbOps, RemovePendingOp(songId))
    /\ display' = <<songQueue'>>
    /\ out' = OutDisplay(<<songQueue'>>, DisplayEvent("delete_song", songId, songQueue))
    /\ UNCHANGED <<mongo, songHistory, playedToday, activeConfirmations, dbHistory,
                   dbPending, confirms, redeemed, searches, cards, nextToken,
                   nextId, clock>>

\* Mutant of SongPlayed: the entry is not pushed to songHistory
SongPlayed_Unlogged(songId) ==
    /\ Arrival
    /\ FindById(songQueue, songId) # <<>>
    /\ LET playedSong == FindById(songQueue, songId)[1]
           timestamp == Timestamp(ms, dbHistory, dbOps)
       IN  /\ playedToday' = Append(playedToday, playedSong)
           /\ dbOps' = Issue(Issue(dbOps, AddHistoryOp(playedSong, day, timestamp)),
                             RemovePendingOp(songId))
           /\ ms' = [ms EXCEPT !.stamp = timestamp]
    /\ songQueue' = FilterOutId(songQueue, songId)
    /\ display' = <<songQueue'>>
    /\ out' = OutDisplay(<<songQueue'>>, DisplayEvent("song_played", songId, songQueue))
    /\ UNCHANGED <<mongo, songHistory, activeConfirmations, dbHistory, dbPending,
                   confirms, redeemed, searches, cards, nextToken, nextId, day, timer,
                   restarts>>

\* socket.on('song_played') for an id that is in the queue
SongPlayed(songId) ==
    /\ Arrival
    /\ FindById(songQueue, songId) # <<>>
    /\ LET playedSong == FindById(songQueue, songId)[1]
           timestamp == Timestamp(ms, dbHistory, dbOps)
       IN  /\ songHistory' = Append(songHistory, playedSong)
           /\ playedToday' = Append(playedToday, playedSong)
           /\ dbOps' = Issue(Issue(dbOps, AddHistoryOp(playedSong, day, timestamp)),
                             RemovePendingOp(songId))
           /\ ms' = [ms EXCEPT !.stamp = timestamp]
    /\ songQueue' = FilterOutId(songQueue, songId)
    /\ display' = <<songQueue'>>
    /\ out' = OutDisplay(<<songQueue'>>, DisplayEvent("song_played", songId, songQueue))
    /\ UNCHANGED <<mongo, activeConfirmations, dbHistory, dbPending, confirms, redeemed,
                   searches, cards, nextToken, nextId, day, timer, restarts>>

\* Mutant of SongPlayedMissing: the result of find is logged unguarded
SongPlayedMissing_Unguarded(songId) ==
    /\ Arrival
    /\ FindById(songQueue, songId) = <<>>
    /\ LET undefined == [id |-> songId, name |-> "-", artist |-> <<>>,
                         albumArt |-> "-", wasPlayedToday |-> FALSE, userName |-> "-"]
       IN  /\ songHistory' = Append(songHistory, undefined)
           /\ playedToday' = Append(playedToday, undefined)
    /\ out' = OutDisplay(<<>>, DisplayEvent("song_played", songId, songQueue))
    /\ UNCHANGED <<mongo, display, songQueue, activeConfirmations, db, confirms,
                   redeemed, searches, cards, nextToken, nextId, clock>>

\* socket.on('song_played') for an id that is not in the queue
SongPlayedMissing(songId) ==
    /\ Arrival
    /\ FindById(songQueue, songId) = <<>>
    /\ out' = OutDisplay(<<>>, DisplayEvent("song_played", songId, songQueue))
    /\ UNCHANGED <<mongo, display, mem, db, confirms, redeemed, searches, cards, nextToken,
                   nextId, clock>>

\* ---------------------------------------------------------------- database layer
\* The database executes one of the statements in flight.  Statements are
\* issued with db.run outside db.serialize, so they run in any order; of
\* equal statements the one issued last is taken as the one that runs.
DbExec(o) ==
    /\ Internal
    /\ o \in dbOps
    /\ \A p \in Copies(dbOps, o) : p.copy <= o.copy
    /\ dbOps' = dbOps \ {o}
    /\ dbPending' = IF o.op = "addPending" THEN ExecAddPending(dbPending, o.row[1])
                    ELSE IF o.op = "removePending" THEN ExecRemovePending(dbPending, o.id)
                    ELSE dbPending
    /\ dbHistory' = IF o.op = "addHistory" THEN InsertHistory(dbHistory, o.row[1], o.day, o.instant)
                    ELSE dbHistory
    /\ out' = Silent
    /\ UNCHANGED <<mongo, display, mem, confirms, redeemed, searches, cards, nextToken, nextId, clock>>

\* ---------------------------------------------------------------- time
\* A reset timeout whose midnight has passed is pending
ResetDue == \E t \in timer : day >= t

\* The wall clock passes to a later millisecond of the day, the last one
\* of the day or not
Millisecond(last) ==
    /\ Arrival
    /\ ~ms.eve
    /\ ms' = [stamp |-> 0, eve |-> last]
    /\ ms' # ms
    /\ out' = Silent
    /\ UNCHANGED <<mongo, display, mem, db, confirms, redeemed, searches, cards, nextToken,
                   nextId, day, timer, restarts>>

\* The wall clock passes local midnight
Midnight ==
    /\ Arrival
    /\ day' = day + 1
    /\ ms' = Fresh
    /\ out' = Silent
    /\ UNCHANGED <<mongo, display, mem, db, confirms, redeemed, searches, cards, nextToken,
                   nextId, timer, restarts>>

\* Mutant of DailyReset: the history list is reset with playedToday
DailyReset_ClearsHistory ==
    /\ Internal
    /\ \E t \in timer :
          /\ day >= t \/ (ms.eve /\ t = day + 1)
          /\ timer' = (timer \ {t}) \cup {day + 1}
    /\ playedToday' = <<>>
    /\ songHistory' = <<>>
    /\ out' = Silent
    /\ UNCHANGED <<mongo, display, songQueue, activeConfirmations, db, confirms, redeemed,
                   searches, cards, nextToken, nextId, day, ms, restarts>>

\* Mutant of DailyReset: the callback does not call scheduleDailyReset
DailyReset_NoReschedule ==
    /\ Internal
    /\ \E t \in timer :
          /\ day >= t \/ (ms.eve /\ t = day + 1)
          /\ timer' = timer \ {t}
    /\ playedToday' = <<>>
    /\ out' = Silent
    /\ UNCHANGED <<mongo, display, songQueue, songHistory, activeConfirmations, db, confirms,
                   redeemed, searches, cards, nextToken, nextId, day, ms, restarts>>

\* The timeout set by scheduleDailyReset fires, clears playedToday and
\* schedules the next one for the start of the day after the one the clock
\* shows.  The event loop runs a timeout when its own clock, in whole
\* milliseconds, has reached the delay: at or after the midnight the delay
\* was computed for, or in the last millisecond before it.
DailyReset ==
    /\ Internal
    /\ \E t \in timer :
          /\ day >= t \/ (ms.eve /\ t = day + 1)
          /\ timer' = (timer \ {t}) \cup {day + 1}
    /\ playedToday' = <<>>
    /\ out' = Silent
    /\ UNCHANGED <<mongo, display, songQueue, songHistory, activeConfirmations, db, confirms,
                   redeemed, searches, cards, nextToken, nextId, day, ms, restarts>>

\* ---------------------------------------------------------------- restart
\* The process stops and starts again: memory is rebuilt by
\* loadHistoryFromDb and loadPendingSongsFromDb, statements not yet
\* executed and suspended handlers are lost, the timer is set anew.  The
\* restart takes more than a millisecond.
Restart ==
    /\ Arrival
    /\ restarts' = restarts + 1
    /\ day' = IF ms.eve THEN day + 1 ELSE day
    /\ ms' = Fresh
    /\ songQueue' = LoadedQueue(dbPending)
    /\ songHistory' = LoadedHistory(dbHistory)
    /\ playedToday' = <<>>
    /\ activeConfirmations' = [u \in Users |-> NoToken]
    /\ dbOps' = {}
    /\ confirms' = <<>>
    /\ searches' = <<>>
    /\ timer' = {day' + 1}
    /\ display' = <<>>
    /\ out' = Silent
    /\ UNCHANGED <<mongo, dbHistory, dbPending, redeemed, cards, nextToken, nextId>>

Next ==
    \/ \E u \in Users, text \in Texts : Search(u, text)
    \/ \E i \in DOMAIN searches : SearchFailed(i)
    \/ \E i \in DOMAIN searches : SearchEmpty(i)
    \/ \E i \in DOMAIN searches, t \in Tracks : SearchFound(i, t)
    \/ \E u \in Users, text \in Texts : Reject(u, text)
    \/ \E u \in Users, c \in cards : ConfirmExpired(u, c)
    \/ \E u \in Users, c \in cards : ConfirmAccepted(u, c)
    \/ \E i \in DOMAIN confirms : ProfileFailed(i)
    \/ \E i \in DOMAIN confirms : ProfileDuplicate(i)
    \/ \E i \in DOMAIN confirms : ProfileAdded(i)
    \/ Connect
    \/ \E id \in Shown : DeleteSong(id)
    \/ \E id \in Shown : SongPlayed(id)
    \/ \E id \in Shown : SongPlayedMissing(id)
    \/ \E o \in dbOps : DbExec(o)
    \/ \E last \in BOOLEAN : Millisecond(last)
    \/ Midnight
    \/ DailyReset

\* The running server, no restart
Spec == Init /\ [][Next]_vars

\* The running server with the timers of the event loop: a timeout that
\* is due is eventually run
SpecTimers == Spec /\ WF_vars(DailyReset)

\* The server with process restarts
NextR == Next \/ Restart
SpecRestart == Init /\ [][NextR]_vars

\* The rows of pending_songs that an earlier run of the server left: the
\* entries of two tracks
QueuedBefore ==
    << [id |-> 1, name |-> "B", artist |-> <<"311">>, albumArt |-> Placeholder,
        wasPlayedToday |-> ToSqlBool(FALSE), userName |-> DisplayName("u1")],
       [id |-> 2, name |-> "B", artist |-> <<"Y">>, albumArt |-> "imgB",
        wasPlayedToday |-> ToSqlBool(TRUE), userName |-> DisplayName("u2")] >>

\* The SQLite-backed server after a startup that found these rows:
\* loadPendingSongsFromDb has put them in songQueue
InitLoaded ==
    /\ Idle
    /\ Listening
    /\ Unobserved
    /\ backend = "sqlite"
    /\ timer = {1}
    /\ dbPending = QueuedBefore
    /\ songQueue = LoadedQueue(dbPending)
    /\ dbHistory = <<>>
    /\ songHistory = LoadedHistory(dbHistory)
    /\ nextId = Len(dbPending) + 1

\* The running server, its queue loaded at startup
SpecLoaded == InitLoaded /\ [][Next]_vars

\* ---------------------------------------------------------------- MongoDB-backed server
\* The server of src/index.js lines 1-293: the queue and the confirmations
\* are in memory, the history is the collection of Song documents, and
\* there is no pending store, no playedToday list and no reset timer.  Its
\* handlers for rejection, postback up to the duplicate check, failed and
\* empty search, connection and song_played for an id not queued have the
\* code of the SQLite-backed server.

\* Instants are whole hours since a UTC midnight; the host keeps local
\* time at a fixed offset from UTC: its UTC offsets, in hours
HostOffsets == {0 - 5, 0, 7}

\* Hours the wall clock is looked at
ClockHours == {9, 33}

\* The wall clock reaches the hour h
ClockReaches(h) ==
    /\ phase = "listening"
    /\ events < MaxEvents
    /\ events' = events + 1
    /\ h > wall.now
    /\ wall' = [wall EXCEPT !.now = h]
    /\ out' = Silent
    /\ UNCHANGED <<mem, db, display, mongo, confirms, redeemed, searches, cards,
                   nextToken, nextId, clock, boot, renewal, requests>>

\* startOfDay.setHours(startOfDay.getHours() - 7)
BangkokOffset == 7

\* new Date(now.getFullYear(), now.getMonth(), now.getDate()) is the
\* midnight that began the host's local day; setHours moves it back seven
\* hours of local time.  The result is given as an instant.
StartOfDay(now, offset) ==
    LET local == now + offset
        midnight == (local \div 24) * 24
    IN  (midnight - BangkokOffset) - offset

\* Song.findOne({ name, artist, timestamp: { $gte: startOfDay } }) finds a
\* document
FindOneSince(coll, songName, artistName, startOfDay) ==
    \E k \in DOMAIN coll :
        /\ coll[k].name = songName
        /\ coll[k].artist = artistName
        /\ coll[k].timestamp >= startOfDay

\* searchTracks resolves with a track: hasBeenPlayedToday(songData.name,
\* songData.artist) computes startOfDay from the clock and the handler
\* suspends on Song.findOne.  The lookup tasks are in the order in which
\* searchTracks resolved, and late is not kept for this server.
MongoSearchFound(i, track) ==
    /\ Internal
    /\ i \in DOMAIN searches
    /\ lookups' = Append(lookups, [user |-> searches[i].user, songData |-> SongData(track),
                                   startOfDay |-> StartOfDay(wall.now, wall.offset)])
    /\ searches' = RemoveAt(searches, i)
    /\ out' = Silent
    /\ UNCHANGED <<mem, db, display, backend, plays, confirms, redeemed, cards,
                   nextToken, nextId, clock>>

\* hasBeenPlayedToday of a lookup task has resolved with wasPlayed: a
\* confirmation is issued and the card is sent
LookupResolved(i, wasPlayed) ==
    /\ Internal
    /\ i \in DOMAIN lookups
    /\ LET u == lookups[i].user
           songData == lookups[i].songData
           confirmationId == nextToken
       IN  /\ activeConfirmations' =
                  IssueConfirmation(activeConfirmations, u, confirmationId)
           /\ cards' = cards \cup {Card(u, songData, confirmationId, wasPlayed)}
           /\ out' = Out(Reply("card", u, 0, songData.name), <<>>)
    /\ nextToken' = nextToken + 1
    /\ lookups' = RemoveAt(lookups, i)
    /\ UNCHANGED <<songQueue, songHistory, playedToday, db, display, backend, plays,
                   searches, confirms, redeemed, nextId, clock>>

\* Song.findOne resolves with a document or null, or rejects (failed):
\* !!song, or false from the catch block
MongoLookup(i, failed) ==
    /\ i \in DOMAIN lookups
    /\ LookupResolved(i, /\ ~failed
                         /\ FindOneSince(dbHistory, lookups[i].songData.name,
                                         lookups[i].songData.artist,
                                         lookups[i].startOfDay))

\* getProfile resolves and the pair is not queued: push, broadcast, reply
MongoProfileAdded(i) ==
    /\ Internal
    /\ i \in DOMAIN confirms
    /\ ~isDuplicateInQueue(songQueue, confirms[i].songData)
    /\ LET newSong == NewSong(nextId, confirms[i].songData,
                              DisplayName(confirms[i].user))
       IN  /\ songQueue' = Push(songQueue, newSong)
           /\ display' = <<songQueue'>>
           /\ out' = OutDone(Reply("added", confirms[i].user, confirms[i].confirmationId,
                                   newSong.name),
                             <<songQueue'>>, confirms[i])
    /\ confirms' = MarkPeers(i, nextId)
    /\ nextId' = nextId + 1
    /\ UNCHANGED <<mongo, songHistory, playedToday, activeConfirmations, db,
                   redeemed, searches, cards, nextToken, clock>>

\* socket.on('delete_song')
MongoDeleteSong(songId) ==
    /\ Arrival
    /\ songQueue' = FilterOutId(songQueue, songId)
    /\ display' = <<songQueue'>>
    /\ out' = OutDisplay(<<songQueue'>>, DisplayEvent("delete_song", songId, songQueue))
    /\ UNCHANGED <<mongo, songHistory, playedToday, activeConfirmations, db,
                   confirms, redeemed, searches, cards, nextToken, nextId, clock>>

\* new Song({ name, artist, albumArt, requestedBy }): timestamp defaults to
\* Date.now.  entry is the id of the queue entry the document was made from.
SongLog(playedSong, now) ==
    [name |-> playedSong.name, artist |-> playedSong.artist,
     albumArt |-> playedSong.albumArt, requestedBy |-> playedSong.userName,
     timestamp |-> now, entry |-> playedSong.id]

\* socket.on('song_played') for an id that is in the queue: the handler
\* suspends on songLog.save()
MongoSongPlayed(songId) ==
    /\ Arrival
    /\ FindById(songQueue, songId) # <<>>
    /\ plays' = Append(plays, [id |-> songId,
                               songLog |-> SongLog(FindById(songQueue, songId)[1], wall.now)])
    /\ out' = OutDisplay(<<>>, DisplayEvent("song_played", songId, songQueue))
    /\ UNCHANGED <<mem, db, display, backend, lookups, confirms, redeemed, searches,
                   cards, nextToken, nextId, clock>>

\* songLog.save() resolves: the entry is filtered out and the queue broadcast
MongoSaved(i) ==
    /\ Internal
    /\ i \in DOMAIN plays
    /\ dbHistory' = Append(dbHistory, plays[i].songLog)
    /\ songQueue' = FilterOutId(songQueue, plays[i].id)
    /\ display' = <<songQueue'>>
    /\ out' = OutDisplay(<<songQueue'>>, DisplayEvent("song_played", plays[i].id, songQueue))
    /\ plays' = RemoveAt(plays, i)
    /\ UNCHANGED <<songHistory, playedToday, activeConfirmations, dbPending, dbOps,
                   backend, lookups, confirms, redeemed, searches, cards, nextToken,
                   nextId, clock>>

\* songLog.save() rejects: the catch block logs the error
MongoSaveFailed(i) ==
    /\ Internal
    /\ i \in DOMAIN plays
    /\ plays' = RemoveAt(plays, i)
    /\ out' = OutDisplay(<<>>, DisplayEvent("song_played", plays[i].id, songQueue))
    /\ UNCHANGED <<mem, db, display, backend, lookups, confirms, redeemed, searches,
                   cards, nextToken, nextId, clock>>

NextMongo ==
    \/ \E u \in Users, text \in Texts : Search(u, text)
    \/ \E i \in DOMAIN searches : SearchFailed(i)
    \/ \E i \in DOMAIN searches : SearchEmpty(i)
    \/ \E i \in DOMAIN searches, t \in Tracks : MongoSearchFound(i, t)
    \/ \E i \in DOMAIN lookups, failed \in BOOLEAN : MongoLookup(i, failed)
    \/ \E u \in Users, text \in Texts : Reject(u, text)
    \/ \E u \in Users, c \in cards : ConfirmExpired(u, c)
    \/ \E u \in Users, c \in cards : ConfirmAccepted(u, c)
    \/ \E i \in DOMAIN confirms : ProfileFailed(i)
    \/ \E i \in DOMAIN confirms : ProfileDuplicate(i)
    \/ \E i \in DOMAIN confirms : MongoProfileAdded(i)
    \/ Connect
    \/ \E id \in Shown : MongoDeleteSong(id)
    \/ \E id \in Shown : MongoSongPlayed(id)
    \/ \E id \in Shown : SongPlayedMissing(id)
    \/ \E i \in DOMAIN plays : MongoSaved(i)
    \/ \E i \in DOMAIN plays : MongoSaveFailed(i)
    \/ \E h \in ClockHours : ClockReaches(h)

\* A host at hour 0: late evening, midnight or morning by its clock
HostClock == wall \in [now : {0}, offset : HostOffsets] /\ renewal = "unobserved"

InitMongo == Start /\ Listening /\ HostClock /\ backend = "mongodb" /\ timer = {}
SpecMongo == InitMongo /\ [][NextMongo]_vars

\* Either server
InitAll == Init \/ InitMongo
NextAll ==
    \/ backend = "sqlite" /\ Next
    \/ backend = "mongodb" /\ NextMongo
SpecAll == InitAll /\ [][NextAll]_vars

\* ---------------------------------------------------------------- Sheets-backed server
\* The server of src/index.js lines 582-909: the history is the rows of a
\* Google Sheet reached through the variable sheet, which initSheet sets
\* after the server listens.  Its handlers have the code of the
\* MongoDB-backed server, with sheet.getRows() for Song.findOne() and
\* sheet.addRow() for songLog.save(), except where they test sheet.

\* timeZone: 'Asia/Bangkok'
AsiaBangkok == 7

\* new Date().toLocaleString('en-US', { timeZone: 'Asia/Bangkok' }): what a
\* clock kept at UTC+7 reads, in hours
BangkokReading(now) == now + AsiaBangkok

\* new Date(timestampStr): the reading is taken as one of the host's clock
ParseReading(reading, offset) == reading - offset

\* toLocaleDateString('en-US', { timeZone: bangkokTimezone }): the calendar
\* day a clock kept at UTC+7 shows
BangkokDate(t) == (t + AsiaBangkok) \div 24

\* the loop over the rows of hasBeenPlayedToday returns true
PlayedOnBangkokDate(rows, songName, artistName, now, offset) ==
    \E k \in DOMAIN rows :
        /\ BangkokDate(ParseReading(rows[k].timestamp, offset)) = BangkokDate(now)
        /\ rows[k].name = songName
        /\ rows[k].artist = artistName

\* searchTracks resolves with a track, sheet not set: hasBeenPlayedToday
\* returns false without reading the sheet, a confirmation is issued and
\* the card is sent
SheetsSearchFoundNoSheet(i, track) ==
    /\ Internal
    /\ sheet # "ready"
    /\ i \in DOMAIN searches
    /\ LET u == searches[i].user
           songData == SongData(track)
           confirmationId == nextToken
       IN  /\ activeConfirmations' =
                  IssueConfirmation(activeConfirmations, u, confirmationId)
           /\ cards' = cards \cup {Card(u, songData, confirmationId, FALSE)}
           /\ out' = Out(Reply("card", u, 0, songData.name), <<>>)
    /\ nextToken' = nextToken + 1
    /\ searches' = RemoveAt(searches, i)
    /\ UNCHANGED <<songQueue, songHistory, playedToday, db, display, mongo, confirms,
                   redeemed, nextId, clock>>

\* searchTracks resolves with a track, sheet set: the handler suspends on
\* sheet.getRows()
SheetsSearchFound(i, track) ==
    /\ Internal
    /\ sheet = "ready"
    /\ i \in DOMAIN searches
    /\ lookups' = Append(lookups, [user |-> searches[i].user, songData |-> SongData(track)])
    /\ searches' = RemoveAt(searches, i)
    /\ out' = Silent
    /\ UNCHANGED <<mem, db, display, backend, plays, confirms, redeemed, cards,
                   nextToken, nextId, clock>>

\* sheet.getRows() resolves, or rejects (failed): the rows of the Bangkok
\* date of the moment are searched, or false from the catch block
SheetsLookup(i, failed) ==
    /\ i \in DOMAIN lookups
    /\ LookupResolved(i, /\ ~failed
                         /\ PlayedOnBangkokDate(dbHistory, lookups[i].songData.name,
                                                lookups[i].songData.artist,
                                                wall.now, wall.offset))

\* sheet.addRow({ Timestamp, 'Song Name', Artist, 'Requested By' }).
\* entry is the id of the queue entry the row was made from.
SheetsRow(playedSong, now) ==
    [timestamp |-> BangkokReading(now), name |-> playedSong.name,
     artist |-> playedSong.artist, requestedBy |-> playedSong.userName,
     entry |-> playedSong.id]

\* socket.on('song_played') for a queued id, the sheet set: the handler
\* suspends on sheet.addRow()
SheetsSongPlayed(songId) ==
    /\ Arrival
    /\ sheet = "ready"
    /\ FindById(songQueue, songId) # <<>>
    /\ plays' = Append(plays, [id |-> songId,
                               songLog |-> SheetsRow(FindById(songQueue, songId)[1],
                                                     wall.now)])
    /\ out' = OutDisplay(<<>>, DisplayEvent("song_played", songId, songQueue))
    /\ UNCHANGED <<mem, db, display, backend, lookups, confirms, redeemed, searches,
                   cards, nextToken, nextId, clock>>

\* socket.on('song_played') for a queued id, the sheet not set: nothing
SheetsSongPlayedNoSheet(songId) ==
    /\ Arrival
    /\ sheet # "ready"
    /\ FindById(songQueue, songId) # <<>>
    /\ out' = OutDisplay(<<>>, DisplayEvent("song_played", songId, songQueue))
    /\ UNCHANGED <<mem, db, display, mongo, confirms, redeemed, searches,
                   cards, nextToken, nextId, clock>>

\* initSheet: doc.loadInfo() resolves and sheet is set, or rejects and the
\* error is logged
InitSheet ==
    /\ phase = "listening"
    /\ sheet = "loading"
    /\ sheet' = IF store = "ok" THEN "ready" ELSE "failed"
    /\ out' = Silent
    /\ UNCHANGED <<mem, db, display, mongo, confirms, redeemed, searches,
                   cards, nextToken, nextId, clock, events, phase, store, aside>>

NextSheets ==
    \/ \E u \in Users, text \in Texts : Search(u, text)
    \/ \E i \in DOMAIN searches : SearchFailed(i)
    \/ \E i \in DOMAIN searches : SearchEmpty(i)
    \/ \E i \in DOMAIN searches, t \in Tracks : SheetsSearchFoundNoSheet(i, t)
    \/ \E i \in DOMAIN searches, t \in Tracks : SheetsSearchFound(i, t)
    \/ \E i \in DOMAIN lookups, failed \in BOOLEAN : SheetsLookup(i, failed)
    \/ \E u \in Users, text \in Texts : Reject(u, text)
    \/ \E u \in Users, c \in cards : ConfirmExpired(u, c)
    \/ \E u \in Users, c \in cards : ConfirmAccepted(u, c)
    \/ \E i \in DOMAIN confirms : ProfileFailed(i)
    \/ \E i \in DOMAIN confirms : ProfileDuplicate(i)
    \/ \E i \in DOMAIN confirms : MongoProfileAdded(i)
    \/ Connect
    \/ \E id \in Shown : MongoDeleteSong(id)
    \/ \E id \in Shown : SheetsSongPlayed(id)
    \/ \E id \in Shown : SheetsSongPlayedNoSheet(id)
    \/ \E id \in Shown : SongPlayedMissing(id)
    \/ \E i \in DOMAIN plays : MongoSaved(i)
    \/ \E i \in DOMAIN plays : MongoSaveFailed(i)
    \/ InitSheet
    \/ \E h \in ClockHours : ClockReaches(h)

\* ---------------------------------------------------------------- startup
\* startServer of the MongoDB-backed server: connectDB exits the process
\* when MONGODB_URI is missing or mongoose.connect fails, and the server
\* listens after it returned
StartMongo ==
    /\ backend = "mongodb"
    /\ phase = "starting"
    /\ phase' = IF store = "ok" THEN "listening" ELSE "exited"
    /\ UNCHANGED <<mem, db, display, mongo, confirms, redeemed, searches, cards,
                   nextToken, nextId, clock, events, out, store, sheet, aside>>

\* Startup of the SQLite-backed server with the database open.  The two
\* loads resolve, the server listens and sets the reset timeout; on a
\* database file just created the SELECT of loadHistoryFromDb can run
\* before the CREATE TABLE statements that the open callback issues, and
\* then it rejects as it does when the database is not opened.
StartSqlite(outcome) ==
    /\ backend = "sqlite"
    /\ phase = "starting"
    /\ store \in {"ok", "fresh"}
    /\ outcome = "listening" \/ store = "fresh"
    /\ phase' = outcome
    /\ IF outcome = "listening"
       THEN /\ songHistory' = LoadedHistory(dbHistory)
            /\ songQueue' = LoadedQueue(dbPending)
            /\ timer' = {day + 1}
            /\ store' = "ok"
       ELSE UNCHANGED <<songHistory, songQueue, timer, store>>
    /\ UNCHANGED <<playedToday, activeConfirmations, db, display, mongo, confirms,
                   redeemed, searches, cards, nextToken, nextId, day, ms, restarts,
                   events, out, sheet, aside>>

\* Startup of the SQLite-backed server with the database not opened:
\* loadHistoryFromDb rejects and nothing handles the rejection of the
\* startup function, which ends the process or leaves it without a
\* listening server, by the runtime's handling of unhandled rejections
StartSqliteFailed(outcome) ==
    /\ backend = "sqlite"
    /\ phase = "starting"
    /\ store = "unreachable"
    /\ phase' = outcome
    /\ UNCHANGED <<mem, db, display, mongo, confirms, redeemed, searches, cards,
                   nextToken, nextId, clock, events, out, store, sheet, aside>>

\* Startup of the Sheets-backed server: server.listen, whose callback
\* calls initSheet
StartSheets ==
    /\ backend = "sheets"
    /\ phase = "starting"
    /\ phase' = "listening"
    /\ sheet' = "loading"
    /\ UNCHANGED <<mem, db, display, mongo, confirms, redeemed, searches, cards,
                   nextToken, nextId, clock, events, out, store, aside>>

\* A process of one of the three servers is started, its persistence
\* target reachable or not
InitStartup ==
    /\ Start
    /\ HostClock
    /\ timer = {}
    /\ phase = "starting"
    /\ backend \in {"mongodb", "sheets", "sqlite"}
    /\ store \in {"ok", "fresh", "unreachable"}
    /\ store = "fresh" => backend = "sqlite"
    /\ sheet = "none"

\* The startup of the three servers and what follows it; what follows the
\* startup of the MongoDB- and SQLite-backed servers is SpecAll
NextStartup ==
    \/ StartMongo
    \/ \E outcome \in {"listening", "exited", "stalled"} : StartSqlite(outcome)
    \/ \E outcome \in {"exited", "stalled"} : StartSqliteFailed(outcome)
    \/ StartSheets
    \/ backend = "sheets" /\ NextSheets

SpecStartup == InitStartup /\ [][NextStartup]_vars

\* ---------------------------------------------------------------- statistics
\* GET /api/stats.  A property key and a reported name are kept as the
\* sequence of the pieces of the string, like the artist display string.

\* .slice(0, 20) and { $limit: 20 }
TopN == 20

\* Length of the play histories the statistics are computed from
MaxHistory == 3

\* The tracks of the play history: those of the searches and two more, one
\* of them by an artist whose name is a number
PlayedTracks ==
    Tracks \cup { [name |-> "B", artists |-> <<"311">>, image |-> NoImage],
                  [name |-> "B", artists |-> <<"Y">>, image |-> NoImage] }

\* `${song.name} - ${song.artist}`
SongKey(song) == <<song.name, " - ">> \o song.artist

\* s.artist.split(', ').map(a => a.trim()), for names without outer
\* white space
SplitArtists(artist) ==
    IF artist = <<>> THEN << <<"">> >>
    ELSE LET names == SelectSeq(artist, LAMBDA p : p # ", ")
         IN  [i \in DOMAIN names |-> <<names[i]>>]

\* songHistory.flatMap(s => s.artist.split(', ')...)
RECURSIVE FlatMapArtists(_)
FlatMapArtists(history) ==
    IF history = <<>> THEN <<>>
    ELSE SplitArtists(Head(history).artist) \o FlatMapArtists(Tail(history))

\* The array index a property key denotes, if it is the canonical string
\* of one: such keys are integer-indexed properties of an object
ArrayIndex(key) == IF key = <<"311">> THEN <<311>> ELSE <<>>

\* Own property order of an object: a property of key a is enumerated
\* before a property created later with key b when b is no array index or
\* a is a smaller one
EnumeratedBefore(a, b) ==
    \/ ArrayIndex(b) = <<>>
    \/ ArrayIndex(a) # <<>> /\ ArrayIndex(a)[1] < ArrayIndex(b)[1]

\* acc[key] = (acc[key] || 0) + 1, the object kept as its Object.entries
Increment(entries, key) ==
    IF \E i \in DOMAIN entries : entries[i].name = key
    THEN [i \in DOMAIN entries |->
            IF entries[i].name = key
            THEN [name |-> key, count |-> entries[i].count + 1]
            ELSE entries[i]]
    ELSE SelectSeq(entries, LAMBDA e : EnumeratedBefore(e.name, key))
           \o << [name |-> key, count |-> 1] >>
           \o SelectSeq(entries, LAMBDA e : ~EnumeratedBefore(e.name, key))

\* arr.reduce((acc, item) => ..., {}) over the keys of the items
RECURSIVE getCounts(_)
getCounts(keys) ==
    IF keys = <<>> THEN <<>>
    ELSE Increment(getCounts(SubSeq(keys, 1, Len(keys) - 1)), keys[Len(keys)])

\* .sort((a, b) => b.count - a.count): the sort is stable
RECURSIVE SortByCount(_)
SortByCount(entries) ==
    IF entries = <<>> THEN <<>>
    ELSE LET sorted == SortByCount(SubSeq(entries, 1, Len(entries) - 1))
             last == entries[Len(entries)]
         IN  SelectSeq(sorted, LAMBDA e : e.count >= last.count)
               \o <<last>>
               \o SelectSeq(sorted, LAMBDA e : e.count < last.count)

\* .slice(0, n)
Slice(s, n) == SubSeq(s, 1, IF Len(s) < n THEN Len(s) ELSE n)

\* Object.entries(counts).map(...).sort(...).slice(0, 20)
formatForResponse(counts) == Slice(SortByCount(counts), TopN)

\* The body of a response: res.json({ songs, artists }), or
\* res.status(status).json({ error })
StatsBody(songs, artists) == [status |-> 200, songs |-> songs, artists |-> artists]
StatsError(status) == [status |-> status, songs |-> <<>>, artists |-> <<>>]

\* app.get('/api/stats') of the SQLite-backed server
GetStats ==
    /\ Arrival
    /\ backend = "sqlite"
    /\ out' = OutStats(StatsBody(formatForResponse(getCounts(
                                     [i \in DOMAIN songHistory |-> SongKey(songHistory[i])])),
                                 formatForResponse(getCounts(FlatMapArtists(songHistory)))))
    /\ UNCHANGED <<mem, db, display, mongo, confirms, redeemed, searches, cards,
                   nextToken, nextId, clock>>

\* Requests and calls that are suspended on an await at a time
MaxRequests == 1

\* $group with count: { $sum: 1 }: one entry for each key
Grouped(keys) ==
    { [name |-> keys[i], count |-> Cardinality({j \in DOMAIN keys : keys[j] = keys[i]})]
        : i \in DOMAIN keys }

\* $group, $sort: { count: -1 }, $limit: 20: the results the pipeline can
\* give, the order of the groups and of equal counts being unspecified
Aggregate(keys) ==
    LET groups == Grouped(keys)
        n == IF Cardinality(groups) < TopN THEN Cardinality(groups) ELSE TopN
    IN  { r \in [1..n -> groups] :
            /\ \A i, j \in 1..n : i < j => r[i] # r[j] /\ r[i].count >= r[j].count
            /\ \A g \in groups :
                 (\A i \in 1..n : r[i] # g) => \A i \in 1..n : r[i].count >= g.count }

\* app.get('/api/stats') of the MongoDB-backed server: the handler
\* suspends on the first Song.aggregate
MongoGetStats ==
    /\ backend = "mongodb"
    /\ phase = "listening"
    /\ events < MaxEvents
    /\ events' = events + 1
    /\ Len(requests) < MaxRequests
    /\ requests' = Append(requests, [await |-> "songs", songs |-> <<>>])
    /\ out' = Silent
    /\ UNCHANGED <<mem, db, display, mongo, confirms, redeemed, searches, cards,
                   nextToken, nextId, clock, boot, wall, renewal>>

\* the first pipeline resolves with mostRequestedSongs and the handler
\* suspends on the second Song.aggregate
MongoStatsSongs(i, songs) ==
    /\ phase = "listening"
    /\ i \in DOMAIN requests
    /\ requests[i].await = "songs"
    /\ songs \in Aggregate([k \in DOMAIN dbHistory |-> SongKey(dbHistory[k])])
    /\ requests' = [requests EXCEPT ![i] = [await |-> "artists", songs |-> songs]]
    /\ out' = Silent
    /\ UNCHANGED <<mem, db, display, mongo, confirms, redeemed, searches, cards,
                   nextToken, nextId, clock, events, boot, wall, renewal>>

\* the second pipeline resolves with mostRequestedArtists: res.json
MongoStatsArtists(i, artists) ==
    /\ phase = "listening"
    /\ i \in DOMAIN requests
    /\ requests[i].await = "artists"
    /\ artists \in Aggregate(FlatMapArtists(dbHistory))
    /\ requests' = RemoveAt(requests, i)
    /\ out' = OutStats(StatsBody(requests[i].songs, artists))
    /\ UNCHANGED <<mem, db, display, mongo, confirms, redeemed, searches, cards,
                   nextToken, nextId, clock, events, boot, wall, renewal>>

\* the pipeline awaited rejects: the catch block answers 500
MongoGetStatsFailed(i) ==
    /\ phase = "listening"
    /\ i \in DOMAIN requests
    /\ requests[i].await \in {"songs", "artists"}
    /\ requests' = RemoveAt(requests, i)
    /\ out' = OutStats(StatsError(500))
    /\ UNCHANGED <<mem, db, display, mongo, confirms, redeemed, searches, cards,
                   nextToken, nextId, clock, events, boot, wall, renewal>>

\* The keys of songCounts in the order of the rows: row.get('Song Name'),
\* a row without one skipped
SimSongKeys(rows) ==
    LET named == SelectSeq(rows, LAMBDA row : row.name # "")
    IN  [k \in DOMAIN named |-> <<named[k].name>>]

\* The keys of artistCounts in the order of the rows: the pieces of
\* artistName.split(','), trimmed, the empty ones and a row without an
\* artist skipped
RECURSIVE SimArtistKeys(_)
SimArtistKeys(rows) ==
    IF rows = <<>> THEN <<>>
    ELSE (IF Head(rows).artist = <<>> THEN <<>> ELSE SplitArtists(Head(rows).artist))
            \o SimArtistKeys(Tail(rows))

\* .sort((a, b) => a.count - b.count): the sort is stable
RECURSIVE SortAscending(_)
SortAscending(entries) ==
    IF entries = <<>> THEN <<>>
    ELSE LET sorted == SortAscending(SubSeq(entries, 1, Len(entries) - 1))
             last == entries[Len(entries)]
         IN  SelectSeq(sorted, LAMBDA e : e.count <= last.count)
               \o <<last>>
               \o SelectSeq(sorted, LAMBDA e : e.count > last.count)

\* app.get('/api/stats') of the similarity-ranking server: 503 while sheet
\* is not set, or else the handler suspends on sheet.getRows()
SimGetStats ==
    /\ backend = "similarity"
    /\ phase = "listening"
    /\ events < MaxEvents
    /\ events' = events + 1
    /\ IF sheet # "ready"
       THEN /\ requests' = requests
            /\ out' = OutStats(StatsError(503))
       ELSE /\ Len(requests) < MaxRequests
            /\ requests' = Append(requests, [await |-> "rows", songs |-> <<>>])
            /\ out' = Silent
    /\ UNCHANGED <<mem, db, display, mongo, confirms, redeemed, searches, cards,
                   nextToken, nextId, clock, boot, wall, renewal>>

\* sheet.getRows() resolves: the songs are counted by title, the artists by
\* name, and both lists are sent whole, the smallest count first
SimStatsRows(i) ==
    /\ phase = "listening"
    /\ i \in DOMAIN requests
    /\ requests[i].await = "rows"
    /\ requests' = RemoveAt(requests, i)
    /\ out' = OutStats(StatsBody(SortAscending(getCounts(SimSongKeys(dbHistory))),
                                 SortAscending(getCounts(SimArtistKeys(dbHistory)))))
    /\ UNCHANGED <<mem, db, display, mongo, confirms, redeemed, searches, cards,
                   nextToken, nextId, clock, events, boot, wall, renewal>>

\* sheet.getRows() rejects: the catch block answers 500
SimStatsFailed(i) ==
    /\ phase = "listening"
    /\ i \in DOMAIN requests
    /\ requests[i].await = "rows"
    /\ requests' = RemoveAt(requests, i)
    /\ out' = OutStats(StatsError(500))
    /\ UNCHANGED <<mem, db, display, mongo, confirms, redeemed, searches, cards,
                   nextToken, nextId, clock, events, boot, wall, renewal>>

\* The play histories: every sequence of at most MaxHistory played tracks
PlayHistories == UNION { [1..n -> PlayedTracks] : n \in 0..MaxHistory }

\* The table song_history with a row for each play of h, in rowid order,
\* all of day 0.  The INSERTs run in any order and two of them can carry
\* the timestamp of the same millisecond, so the timestamps of the rows
\* are any.
HistoryRows(h, stamps) ==
    [i \in DOMAIN h |->
        [id |-> i, day |-> 0, instant |-> stamps[i], name |-> SongData(h[i]).name,
         artist |-> SongData(h[i]).artist, userName |-> DisplayName("u1")]]

\* The Song documents after the plays h, all at hour 0
HistoryDocuments(h) ==
    [i \in DOMAIN h |->
        [name |-> SongData(h[i]).name, artist |-> SongData(h[i]).artist,
         albumArt |-> SongData(h[i]).albumArt, requestedBy |-> DisplayName("u1"),
         timestamp |-> 0, entry |-> i]]

\* The rows of the sheet after the plays h, all at hour 0
HistorySheetRows(h) ==
    [i \in DOMAIN h |->
        [name |-> SongData(h[i]).name, artist |-> SongData(h[i]).artist,
         timestamp |-> BangkokReading(0), entry |-> i]]

\* A server whose history store holds a play history.  The SQLite-backed
\* server has loaded it; the MongoDB-backed server has an entry queued.
InitStats ==
    /\ Idle
    /\ Unobserved
    /\ phase = "listening"
    /\ store = "ok"
    /\ dbPending = <<>>
    /\ \E h \in PlayHistories :
          \/ /\ backend = "sqlite"
             /\ sheet = "none"
             /\ timer = {1}
             /\ \E stamps \in [DOMAIN h -> 1..Len(h)] : dbHistory = HistoryRows(h, stamps)
             /\ songHistory = LoadedHistory(dbHistory)
             /\ songQueue = <<>>
             /\ nextId = Len(h) + 1
          \/ /\ backend = "mongodb"
             /\ sheet = "none"
             /\ timer = {}
             /\ dbHistory = HistoryDocuments(h)
             /\ songHistory = <<>>
             /\ \E t \in Tracks :
                   songQueue = << NewSong(Len(h) + 1,
                                          Card("u1", SongData(t), NoToken, FALSE),
                                          DisplayName("u1")) >>
             /\ nextId = Len(h) + 2
          \/ /\ backend = "similarity"
             /\ sheet = "loading"
             /\ timer = {}
             /\ dbHistory = HistorySheetRows(h)
             /\ songHistory = <<>>
             /\ songQueue = <<>>
             /\ nextId = Len(h) + 1

\* The statistics endpoint of the three servers, with the plays that the
\* MongoDB-backed server logs between the two reads of a request
NextStats ==
    \/ GetStats
    \/ MongoGetStats
    \/ \E i \in DOMAIN requests,
          songs \in Aggregate([k \in DOMAIN dbHistory |-> SongKey(dbHistory[k])]) :
          MongoStatsSongs(i, songs)
    \/ \E i \in DOMAIN requests, artists \in Aggregate(FlatMapArtists(dbHistory)) :
          MongoStatsArtists(i, artists)
    \/ \E i \in DOMAIN requests : MongoGetStatsFailed(i)
    \/ backend = "mongodb" /\ \E id \in Shown : MongoSongPlayed(id)
    \/ backend = "mongodb" /\ \E i \in DOMAIN plays : MongoSaved(i)
    \/ SimGetStats
    \/ \E i \in DOMAIN requests : SimStatsRows(i)
    \/ \E i \in DOMAIN requests : SimStatsFailed(i)
    \/ backend = "similarity" /\ InitSheet

SpecStats == InitStats /\ [][NextStats]_vars

\* ---------------------------------------------------------------- postback payloads
\* The payloads a postback can carry: JSON.parse(event.postback.data) is
\* taken as it comes, so next to a confirmationId that was issued there can
\* be the data of any track and either flag, not only those of the card it
\* was sent on
Payloads ==
    { Card(c.user, SongData(t), c.confirmationId, wasPlayed) :
          c \in cards, t \in Tracks, wasPlayed \in BOOLEAN }

\* The running server, the payloads of postbacks unconstrained
NextAnyPayload ==
    \/ Next
    \/ \E u \in Users, c \in Payloads : Confirm(u, c)

SpecAnyPayload == Init /\ [][NextAnyPayload]_vars

\* ---------------------------------------------------------------- similarity-ranking server
\* The server of src/unnamed/part_001: the queue and the confirmations are
\* in memory, the plays are logged as rows of a Google Sheet, the search
\* asks the provider for five candidates and ranks their titles against the
\* query, and the postback branch appends the entry without a profile
\* lookup.  Its handlers for rejection, failed and empty search, stale
\* postback, connection, delete_song and song_played for an id that is not
\* queued or without a sheet have the code of the Sheets-backed server.

\* searchResult.body.tracks.items, at most five and not empty: the title of
\* a candidate is a sequence of characters
Results ==
    LET Song == <<"S", "o", "n", "g">>
        Sing == <<"S", "i", "n", "g">>
        Kings == <<"K", "i", "n", "g", "s">>
        Candidate(name, artists, image) ==
            [name |-> name, artists |-> artists, image |-> image]
    IN  { <<Candidate(Song, <<"X">>, "imgA")>>,
          <<Candidate(Kings, <<"X">>, "imgK"), Candidate(Sing, <<"X", "Y">>, NoImage)>>,
          <<Candidate(Kings, <<"X">>, "imgK"), Candidate(Kings, <<"Y">>, NoImage),
            Candidate(Kings, <<"Z">>, "imgZ"), Candidate(Kings, <<"X", "Y">>, "imgK")>> }

\* A rating is the fraction <<numerator, denominator>>; the quotient of two
\* small integers is rounded as the literal of the threshold is, so the
\* comparison of fractions is the comparison of the floating-point values.
RatingLess(a, b) == a[1] * b[2] < b[1] * a[2]

\* const SIMILARITY_THRESHOLD = 0.3
SIMILARITY_THRESHOLD == <<3, 10>>

\* The bigrams of the second string that consume an occurrence left of the
\* same bigram of the first string
RECURSIVE IntersectionSize(_, _)
IntersectionSize(firstBigrams, secondBigrams) ==
    IF secondBigrams = <<>> THEN 0
    ELSE LET hits == {k \in DOMAIN firstBigrams : firstBigrams[k] = Head(secondBigrams)}
         IN  IF hits = {} THEN IntersectionSize(firstBigrams, Tail(secondBigrams))
             ELSE 1 + IntersectionSize(RemoveAt(firstBigrams, CHOOSE k \in hits : TRUE),
                                       Tail(secondBigrams))

\* stringSimilarity.compareTwoStrings: the Dice coefficient of the
\* two-character substrings of the strings without their white space,
\* case-sensitive
compareTwoStrings(first, second) ==
    LET StripSpaces(str) == SelectSeq(str, LAMBDA c : c # " ")
        Bigrams(str) == [k \in 1..(Len(str) - 1) |-> <<str[k], str[k + 1]>>]
        a == StripSpaces(first)
        b == StripSpaces(second)
    IN  IF a = b THEN <<1, 1>>
        ELSE IF Len(a) < 2 \/ Len(b) < 2 THEN <<0, 1>>
        ELSE <<2 * IntersectionSize(Bigrams(a), Bigrams(b)), Len(a) + Len(b) - 2>>

\* The index of the best rating among the first n: a later rating replaces
\* the best one only when it is greater
RECURSIVE BestMatchIndex(_, _)
BestMatchIndex(ratings, n) ==
    IF n = 1 THEN 1
    ELSE LET best == BestMatchIndex(ratings, n - 1)
         IN  IF RatingLess(ratings[best], ratings[n]) THEN n ELSE best

\* stringSimilarity.findBestMatch(query, trackNames).bestMatch
findBestMatch(mainString, targetStrings) ==
    LET ratings == [k \in DOMAIN targetStrings |->
                        compareTwoStrings(mainString, targetStrings[k])]
        best == BestMatchIndex(ratings, Len(targetStrings))
    IN  [target |-> targetStrings[best], rating |-> ratings[best]]

\* stringSimilarity.findBestMatch(query, trackNames) for every query the
\* handler can search for and every candidate list, trackNames being
\* items.map(item => item.name)
BestMatch ==
    [query \in {Trim(text) : text \in Texts}, items \in Results |->
        findBestMatch(query, [k \in DOMAIN items |-> items[k].name])]

\* bestMatch.bestMatch.rating < SIMILARITY_THRESHOLD
Ambiguous(query, items) ==
    RatingLess(BestMatch[query, items].rating, SIMILARITY_THRESHOLD)

\* items.find(item => item.name === bestMatch.bestMatch.target): the first
\* candidate with the title of the best match
BestTrack(query, items) ==
    LET target == BestMatch[query, items].target
    IN  items[CHOOSE k \in DOMAIN items :
                  /\ items[k].name = target
                  /\ \A j \in 1..(k - 1) : items[j].name # target]

\* Mutant of Suggestions: every candidate is listed
Suggestions_All(items) ==
    [k \in DOMAIN items |->
        <<k, ". ", items[k].name, " - ", JoinArtists(items[k].artists)>>]

\* items.slice(0, 3).map((item, index) => `${index + 1}. ${item.name} - ${artists}`),
\* the lines that join('\n') puts in the text
Suggestions(items) ==
    [k \in 1..(IF Len(items) < 3 THEN Len(items) ELSE 3) |->
        <<k, ". ", items[k].name, " - ", JoinArtists(items[k].artists)>>]

\* A text message that is not a rejection: the handler suspends on
\* spotifyApi.searchTracks(query, { limit: 5 })
SimSearch(u, text) ==
    /\ Arrival
    /\ Trim(text) # <<>>
    /\ ~IsRejection(Trim(text))
    /\ searches' = Append(Flagged(searches, u, FALSE),
                          [user |-> u, query |-> Trim(text), rejected |-> FALSE])
    /\ out' = Silent
    /\ UNCHANGED <<mongo, display, mem, db, confirms, redeemed, cards, nextToken, nextId, clock>>

\* searchTracks resolves and no title is similar enough to the query: the
\* reply is the text with the suggestions
SimAmbiguous(i, items) ==
    /\ Internal
    /\ i \in DOMAIN searches
    /\ Ambiguous(searches[i].query, items)
    /\ searches' = RemoveAt(searches, i)
    /\ out' = [Out(Reply("suggest", searches[i].user, 0, "-"), <<>>)
                  EXCEPT !.body = <<Suggestions(items)>>]
    /\ UNCHANGED <<mongo, display, mem, db, confirms, redeemed, cards, nextToken, nextId, clock>>

\* the postback payload { ...songData, confirmationId }
SimCard(u, songData, confirmationId) ==
    [user |-> u, confirmationId |-> confirmationId, name |-> songData.name,
     artist |-> songData.artist, albumArt |-> songData.albumArt]

\* searchTracks resolves and a title is similar enough: a confirmation is
\* issued and the card of the best match is sent
SimFound(i, items) ==
    /\ Internal
    /\ i \in DOMAIN searches
    /\ ~Ambiguous(searches[i].query, items)
    /\ LET u == searches[i].user
           songData == SongData(BestTrack(searches[i].query, items))
           confirmationId == nextToken
       IN  /\ activeConfirmations' =
                  IssueConfirmation(activeConfirmations, u, confirmationId)
           /\ cards' = cards \cup {SimCard(u, songData, confirmationId)}
           /\ out' = Out(Reply("card", u, 0, songData.name), <<>>)
    /\ nextToken' = nextToken + 1
    /\ searches' = RemoveAt(searches, i)
    /\ UNCHANGED <<mongo, display, songQueue, songHistory, playedToday, db, confirms, redeemed,
                   nextId, clock>>

\* A postback that passes the check: the confirmation is deleted and the
\* entry { id, name, artist, albumArt } is pushed, broadcast and announced
SimConfirmAdded(u, c) ==
    /\ Arrival
    /\ ~ConfirmationExpired(activeConfirmations, u, c.confirmationId)
    /\ activeConfirmations' = RedeemConfirmation(activeConfirmations, u)
    /\ redeemed' = redeemed \cup {<<u, c.confirmationId>>}
    /\ LET newSong == [id |-> nextId, name |-> c.name, artist |-> c.artist,
                       albumArt |-> c.albumArt]
       IN  /\ songQueue' = Push(songQueue, newSong)
           /\ display' = <<songQueue'>>
           /\ out' = Out(Reply("added", u, c.confirmationId, newSong.name), <<songQueue'>>)
    /\ nextId' = nextId + 1
    /\ UNCHANGED <<mongo, songHistory, playedToday, db, confirms, searches, cards,
                   nextToken, clock>>

\* socket.on('song_played') for a queued id, the sheet set: the handler
\* suspends on sheet.addRow({ Timestamp, 'Song Name', Artist })
SimSongPlayed(songId) ==
    /\ Arrival
    /\ sheet = "ready"
    /\ FindById(songQueue, songId) # <<>>
    /\ LET playedSong == FindById(songQueue, songId)[1]
       IN  plays' = Append(plays, [id |-> songId,
                                   songLog |-> [name |-> playedSong.name,
                                                artist |-> playedSong.artist,
                                                timestamp |-> BangkokReading(wall.now),
                                                entry |-> songId]])
    /\ out' = OutDisplay(<<>>, DisplayEvent("song_played", songId, songQueue))
    /\ UNCHANGED <<mem, db, display, backend, lookups, confirms, redeemed, searches,
                   cards, nextToken, nextId, clock>>

NextSimilarity ==
    \/ \E u \in Users, text \in Texts : SimSearch(u, text)
    \/ \E i \in DOMAIN searches : SearchFailed(i)
    \/ \E i \in DOMAIN searches : SearchEmpty(i)
    \/ \E i \in DOMAIN searches, items \in Results : SimAmbiguous(i, items)
    \/ \E i \in DOMAIN searches, items \in Results : SimFound(i, items)
    \/ \E u \in Users, text \in Texts : Reject(u, text)
    \/ \E u \in Users, c \in cards : ConfirmExpired(u, c)
    \/ \E u \in Users, c \in cards : SimConfirmAdded(u, c)
    \/ Connect
    \/ \E id \in Shown : MongoDeleteSong(id)
    \/ \E id \in Shown : SimSongPlayed(id)
    \/ \E id \in Shown : SheetsSongPlayedNoSheet(id)
    \/ \E id \in Shown : SongPlayedMissing(id)
    \/ \E i \in DOMAIN plays : MongoSaved(i)
    \/ \E i \in DOMAIN plays : MongoSaveFailed(i)
    \/ InitSheet

InitSimilarity ==
    /\ Start
    /\ Unobserved
    /\ phase = "listening"
    /\ store = "ok"
    /\ sheet = "loading"
    /\ backend = "similarity"
    /\ timer = {}
SpecSimilarity == InitSimilarity /\ [][NextSimilarity]_vars

\* ---------------------------------------------------------------- day boundary
\* hasBeenPlayedToday of the MongoDB-backed server by the hour.  Instants
\* are whole hours since a UTC midnight; the host keeps local time at a
\* fixed offset from UTC.

\* The last hour followed
MaxHour == 47

\* hasBeenPlayedToday(songName, artistName) is called: now and startOfDay
\* are taken from the clock and the call suspends on Song.findOne
DayCheck(songName, artistName) ==
    /\ Internal
    /\ Len(lookups) < MaxRequests
    /\ lookups' = Append(lookups, [name |-> songName, artist |-> artistName,
                                   now |-> wall.now,
                                   startOfDay |-> StartOfDay(wall.now, wall.offset)])
    /\ out' = Silent
    /\ UNCHANGED <<mem, db, display, backend, plays, confirms, redeemed, searches, cards,
                   nextToken, nextId, clock>>

\* Song.findOne resolves with a document or null, or rejects (failed): the
\* call returns !!song, or false from the catch block
DayCheckResolved(i, failed) ==
    /\ Internal
    /\ i \in DOMAIN lookups
    /\ LET call == lookups[i]
           played == /\ ~failed
                     /\ FindOneSince(dbHistory, call.name, call.artist, call.startOfDay)
       IN  out' = [Silent EXCEPT !.body = <<[name |-> call.name, artist |-> call.artist,
                                             now |-> call.now, failed |-> failed,
                                             played |-> played]>>]
    /\ lookups' = RemoveAt(lookups, i)
    /\ UNCHANGED <<mem, db, display, backend, plays, confirms, redeemed, searches, cards,
                   nextToken, nextId, clock>>

\* An hour passes
Hour ==
    /\ phase = "listening"
    /\ wall.now < MaxHour
    /\ wall' = [wall EXCEPT !.now = @ + 1]
    /\ out' = Silent
    /\ UNCHANGED <<mem, db, display, mongo, confirms, redeemed, searches, cards,
                   nextToken, nextId, clock, events, boot, renewal, requests>>

\* The MongoDB-backed server at the hour at which the one document of its
\* collection is saved
InitDayBoundary ==
    /\ Idle
    /\ Listening
    /\ renewal = "unobserved"
    /\ backend = "mongodb"
    /\ timer = {}
    /\ songQueue = <<>>
    /\ dbPending = <<>>
    /\ songHistory = <<>>
    /\ nextId = 1
    /\ wall \in [now : 0..MaxHour, offset : HostOffsets]
    /\ \E t \in Tracks, timestamp \in 0..MaxHour :
          /\ timestamp = wall.now
          /\ dbHistory = <<[name |-> SongData(t).name, artist |-> SongData(t).artist,
                            timestamp |-> timestamp]>>

NextDayBoundary ==
    \/ \E t \in Tracks : DayCheck(SongData(t).name, SongData(t).artist)
    \/ \E i \in DOMAIN lookups, failed \in BOOLEAN : DayCheckResolved(i, failed)
    \/ Hour

SpecDayBoundary == InitDayBoundary /\ [][NextDayBoundary]_vars

\* ---------------------------------------------------------------- provider credential
\* getSpotifyToken, called once from the callback of server.listen.  The
\* credential is "fetching" while clientCredentialsGrant() is pending,
\* "scheduled" while the timeout set by the success callback is pending and
\* "stopped" after the error callback, which sets no timeout.

\* What a step on the credential leaves alone
CredentialOnly ==
    /\ phase = "listening"
    /\ out' = Silent
    /\ UNCHANGED <<mem, db, display, mongo, confirms, redeemed, searches, cards,
                   nextToken, nextId, clock, events, boot, wall, requests>>

\* clientCredentialsGrant() rejects: the error is logged
GrantRejected ==
    /\ CredentialOnly
    /\ renewal = "fetching"
    /\ renewal' = "stopped"

\* clientCredentialsGrant() resolves: setAccessToken, then
\* setTimeout(getSpotifyToken, (expires_in - 60) * 1000)
GrantResolved ==
    /\ CredentialOnly
    /\ renewal = "fetching"
    /\ renewal' = "scheduled"

\* the timeout fires: getSpotifyToken calls clientCredentialsGrant()
RenewalTimeout ==
    /\ CredentialOnly
    /\ renewal = "scheduled"
    /\ renewal' = "fetching"

\* The SQLite-backed server after its startup, the first fetch pending
InitRenewal ==
    /\ Start
    /\ Listening
    /\ backend = "sqlite"
    /\ timer = {1}
    /\ wall = NoWall
    /\ renewal = "fetching"

\* The credential and the handlers that use it
NextRenewal ==
    \/ GrantResolved
    \/ GrantRejected
    \/ RenewalTimeout
    \/ \E u \in Users, text \in Texts : Search(u, text)
    \/ \E i \in DOMAIN searches : SearchFailed(i)
    \/ \E i \in DOMAIN searches : SearchEmpty(i)
    \/ \E i \in DOMAIN searches, t \in Tracks : SearchFound(i, t)
    \/ \E u \in Users, text \in Texts : Reject(u, text)

\* A pending promise settles and a pending timeout fires
SpecRenewal ==
    /\ InitRenewal
    /\ [][NextRenewal]_vars
    /\ WF_vars(GrantResolved \/ GrantRejected)
    /\ WF_vars(RenewalTimeout)

\* ================================================================ claims
PairInQueue(q, pair) ==
    \E i \in DOMAIN q : q[i].name = pair.name /\ q[i].artist = pair.artist

\* getProfile of task i resolved
ProfileResolved(i) == ProfileDuplicate(i) \/ ProfileAdded(i)

\* the postback task i, whose confirmationId passed the check, ends
ConfirmEnds(i) == ProfileFailed(i) \/ ProfileResolved(i)

\* C1: under every interleaving of search, confirm, delete_song and
\* song_played events, songQueue never holds two entries with equal
\* (name, artist).
C1_NoDuplicatePairs ==
    \A i, j \in DOMAIN songQueue :
        i # j => ~(/\ songQueue[i].name = songQueue[j].name
                   /\ songQueue[i].artist = songQueue[j].artist)

\* two entries are queued, the second just appended by a confirmation
C1_Witness ==
    /\ Len(songQueue) = 2
    /\ out.reply.kind = "added"

\* C2: two postbacks of different identities for the same (name, artist),
\* both suspended on getProfile.  The one whose lookup resolves while the pair
\* is not queued appends an entry; the one whose lookup resolves while the
\* entry appended by the other is queued replies 'already in the queue',
\* appends nothing, issues no write, and its confirmationId stays consumed.
C2_RaceOneAppends ==
    [][\A i \in DOMAIN confirms :
        ProfileResolved(i) =>
            /\ ( /\ \E j \in DOMAIN confirms :
                        /\ j # i
                        /\ confirms[j].user # confirms[i].user
                        /\ confirms[j].songData.name = confirms[i].songData.name
                        /\ confirms[j].songData.artist = confirms[i].songData.artist
                  /\ ~PairInQueue(songQueue, confirms[i].songData) )
                => /\ out'.reply.kind = "added"
                   /\ Len(songQueue') = Len(songQueue) + 1
            /\ ( confirms[i].peer # 0 /\ HasId(songQueue, confirms[i].peer) )
                => /\ out'.reply.kind = "duplicate"
                   /\ songQueue' = songQueue
                   /\ dbOps' = dbOps
                   /\ activeConfirmations'[confirms[i].user] # confirms[i].confirmationId
      ]_vars

\* the second of the two racing tasks has just replied 'already in the queue'
C2_Witness ==
    /\ out.done # <<>>
    /\ out.reply.kind = "duplicate"
    /\ out.done[1].peer # 0
    /\ HasId(songQueue, out.done[1].peer)

\* C3: once a postback of an identity has passed the check with a
\* confirmationId, every later postback of that identity with the same
\* confirmationId is answered 'expired', starts no task and leaves the queue
\* alone.
C3_TokenSingleUse ==
    [][\A u \in Users, c \in cards :
        (Confirm(u, c) /\ <<u, c.confirmationId>> \in redeemed)
            => /\ out'.reply.kind = "expired"
               /\ songQueue' = songQueue
               /\ confirms' = confirms
               /\ redeemed' = redeemed
      ]_vars

\* a redeemed confirmationId was presented again by its identity
C3_Witness ==
    /\ out.reply.kind = "expired"
    /\ <<out.reply.user, out.reply.cid>> \in redeemed

\* C4: a postback passes the check only with the confirmationId issued last
\* to its identity: after a second one has been issued, the first is never
\* accepted again.
C4_TokenOverwrite ==
    [][\A u \in Users, c \in cards :
        (Confirm(u, c) /\ \E d \in cards :
                              d.user = u /\ d.confirmationId > c.confirmationId)
            => /\ out'.reply.kind = "expired"
               /\ confirms' = confirms
      ]_vars

\* the first of two confirmationIds issued to an identity was presented by
\* it while never redeemed
C4_Witness ==
    /\ out.reply.kind = "expired"
    /\ <<out.reply.user, out.reply.cid>> \notin redeemed
    /\ \E c, d \in cards :
          /\ c.user = out.reply.user /\ d.user = out.reply.user
          /\ c.confirmationId = out.reply.cid
          /\ d.confirmationId > c.confirmationId

\* C5: a postback whose confirmationId is not the one stored for its identity
\* is answered 'expired' and changes neither the queue, the pending store, the
\* history nor the registry.
C5_StaleConfirmIsNoOp ==
    [][\A u \in Users, c \in cards :
        (Confirm(u, c) /\ activeConfirmations[u] # c.confirmationId)
            => /\ out'.reply.kind = "expired"
               /\ out'.emit = <<>>
               /\ UNCHANGED <<songQueue, songHistory, playedToday,
                              activeConfirmations, dbHistory, dbPending, dbOps,
                              confirms>>
      ]_vars

\* a stale confirmationId was presented while the identity holds a live one
C5_Witness ==
    /\ out.reply.kind = "expired"
    /\ activeConfirmations[out.reply.user] # NoToken
    /\ activeConfirmations[out.reply.user] # out.reply.cid

\* C6: a postback with a valid confirmationId whose pair is in songQueue
\* when its handling ends changes neither the queue nor the pending store,
\* broadcasts nothing, is answered 'already in the queue', and afterwards
\* the identity has no redeemable confirmation.
C6_DuplicateLeavesNoToken ==
    [][\A i \in DOMAIN confirms :
        (ConfirmEnds(i) /\ PairInQueue(songQueue, confirms[i].songData))
            => /\ out'.reply.kind = "duplicate"
               /\ out'.reply.user = confirms[i].user
               /\ out'.emit = <<>>
               /\ UNCHANGED <<songQueue, dbPending, dbOps>>
               /\ activeConfirmations'[confirms[i].user] = NoToken
      ]_vars

Pairs == {SongData(t) : t \in Tracks}

\* the entry with id songId has the pair p
QueuedAs(songId, p) ==
    \E i \in DOMAIN songQueue :
        /\ songQueue[i].id = songId
        /\ songQueue[i].name = p.name
        /\ songQueue[i].artist = p.artist

\* C7: hasBeenPlayedToday turns true for a pair only by a song_played
\* transition of an entry with that pair, is true after every such
\* transition, and stays true until the daily reset fires.
C7_PlayedTodayConsistency ==
    [][\A p \in Pairs :
        /\ (~hasBeenPlayedToday(p.name, p.artist) /\ hasBeenPlayedToday(p.name, p.artist)')
              => \E id \in Shown : SongPlayed(id) /\ QueuedAs(id, p)
        /\ (\E id \in Shown : SongPlayed(id) /\ QueuedAs(id, p))
              => hasBeenPlayedToday(p.name, p.artist)'
        /\ (hasBeenPlayedToday(p.name, p.artist) /\ ~DailyReset)
              => hasBeenPlayedToday(p.name, p.artist)'
      ]_vars

\* midnight has passed, the reset has not fired yet, a pair played the day
\* before still counts as played
C7_Witness ==
    /\ ResetDue
    /\ \E p \in Pairs : hasBeenPlayedToday(p.name, p.artist)

PairOf(r) == [name |-> r.name, artist |-> r.artist]

\* C8: whenever no history write is in flight and the reset timer is not
\* overdue, the pairs in playedToday are exactly the pairs of the
\* song_history rows stamped with the current day.
C8_PlayedTodayIsHistoryFilter ==
    ( /\ \A o \in dbOps : o.op # "addHistory"
      /\ ~ResetDue )
        => {PairOf(playedToday[i]) : i \in DOMAIN playedToday}
             = {PairOf(dbHistory[i]) :
                    i \in {k \in DOMAIN dbHistory : dbHistory[k].day = day}}

\* C9: once every database write issued has been executed, pending_songs
\* and songQueue hold the same ids.
C9_PendingStoreConverges ==
    dbOps = {}
        => {dbPending[i].id : i \in DOMAIN dbPending}
             = {songQueue[i].id : i \in DOMAIN songQueue}

IsPrefix(s, t) == Len(s) <= Len(t) /\ SubSeq(t, 1, Len(s)) = s

\* C10: no search, confirm, reject, delete_song, song_played or daily-reset
\* step removes or alters a history record, in memory or in song_history;
\* the list in memory grows only by a song_played transition, one record at
\* a time, and the table only by the INSERT such a transition issued.
C10_HistoryAppendOnly ==
    [][/\ IsPrefix(songHistory, songHistory')
       /\ IsPrefix(dbHistory, dbHistory')
       /\ songHistory' # songHistory
             => /\ \E id \in Shown : SongPlayed(id)
                /\ Len(songHistory') = Len(songHistory) + 1
       /\ dbHistory' # dbHistory
             => \E o \in dbOps : o.op = "addHistory" /\ DbExec(o)
      ]_vars

\* a daily reset has fired after a play and the record is kept, in memory
\* and in the table
C10_Witness ==
    /\ timer # {1}
    /\ songHistory # <<>>
    /\ dbHistory # <<>>

\* a song_played message for the id songId, queued or not
SongPlayedEvent(songId) == SongPlayed(songId) \/ SongPlayedMissing(songId)

\* C11: a song_played or delete_song message for an id that is not in
\* songQueue leaves the queue, the history (in memory and in song_history)
\* and playedToday unchanged, issues no history INSERT and sends no reply;
\* after a delete_song for an id the queue holds no entry with that id, so a
\* second delete_song for it finds the id missing and changes nothing.
C11_NotFoundIsNoOp ==
    [][\A songId \in Shown :
        /\ ( (DeleteSong(songId) \/ SongPlayedEvent(songId))
             /\ ~HasId(songQueue, songId) )
              => /\ UNCHANGED <<songQueue, songHistory, playedToday, dbHistory>>
                 /\ \A o \in dbOps' \ dbOps : o.op # "addHistory"
                 /\ out'.reply = NoReply
        /\ DeleteSong(songId)
              => /\ ~HasId(songQueue', songId)
                 /\ FilterOutId(songQueue', songId) = songQueue'
      ]_vars

\* a song_played message arrived for an id whose entry a play had already
\* taken out of the queue
C11_Witness ==
    /\ out.event.kind = "song_played"
    /\ ~out.event.found
    /\ \E k \in DOMAIN songHistory : songHistory[k].id = out.event.id

\* the entry of q with the id songId
EntryOf(q, songId) == q[CHOOSE i \in DOMAIN q : q[i].id = songId]

\* q without its entries with the id songId, the others in place
Without(q, songId) == SelectSeq(q, LAMBDA e : e.id # songId)

\* no database write naming songId is in flight
Settled(ops, songId) == \A o \in ops : o.id # songId

\* C12: a song_played message for an id in songQueue appends exactly one
\* history record with the entry's name, artist and requester (in memory,
\* and one INSERT for song_history), makes hasBeenPlayedToday true of its
\* pair, takes exactly that entry out of songQueue and leaves the others in
\* place; and the entry is removed from pending_songs: once the writes
\* naming a played id have been executed, the table has no row with it.
C12_PlayedEffect ==
    [][/\ \A songId \in Shown :
            (SongPlayed(songId) /\ HasId(songQueue, songId))
              => LET e == EntryOf(songQueue, songId)
                 IN  /\ Len(songHistory') = Len(songHistory) + 1
                     /\ IsPrefix(songHistory, songHistory')
                     /\ songHistory'[Len(songHistory')].name = e.name
                     /\ songHistory'[Len(songHistory')].artist = e.artist
                     /\ songHistory'[Len(songHistory')].userName = e.userName
                     /\ Cardinality({o \in dbOps' \ dbOps : o.op = "addHistory"}) = 1
                     /\ \A o \in dbOps' \ dbOps :
                            o.op = "addHistory"
                              => /\ o.row[1].name = e.name
                                 /\ o.row[1].artist = e.artist
                                 /\ o.row[1].userName = e.userName
                     /\ \E k \in DOMAIN playedToday' :
                            /\ playedToday'[k].name = e.name
                            /\ playedToday'[k].artist = e.artist
                     /\ songQueue' = Without(songQueue, songId)
                     /\ Len(songQueue') = Len(songQueue) - 1
       /\ \A k \in DOMAIN songHistory' :
            Settled(dbOps', songHistory'[k].id) => ~HasId(dbPending', songHistory'[k].id)
      ]_vars

\* the entry with the id songId has been played
Played(songId) == \E k \in DOMAIN songHistory : songHistory[k].id = songId

\* C14: a delete_song message for an id in songQueue takes exactly that
\* entry out of songQueue, broadcasts the queue without it and leaves the
\* history, playedToday and the registry unchanged; and the entry is removed
\* from pending_songs: once the writes naming a deleted id have been
\* executed, the table has no row with it.
C14_DeleteEffect ==
    [][/\ \A songId \in Shown :
            (DeleteSong(songId) /\ HasId(songQueue, songId))
              => /\ songQueue' = Without(songQueue, songId)
                 /\ Len(songQueue') = Len(songQueue) - 1
                 /\ out'.emit = <<songQueue'>>
                 /\ UNCHANGED <<songHistory, playedToday, activeConfirmations,
                                dbHistory>>
                 /\ \A o \in dbOps' \ dbOps : o.op = "removePending" /\ o.id = songId
       /\ \A songId \in Shown :
            ( /\ ~HasId(songQueue', songId)
              /\ ~Played(songId)'
              /\ Settled(dbOps', songId) )
              => ~HasId(dbPending', songId)
      ]_vars

\* the step in which a song_played handler takes the entry songId out of the
\* queue: the whole handler (SQLite), the part after the save (MongoDB)
PlayedTransition(songId) ==
    \/ backend = "sqlite" /\ SongPlayed(songId)
    \/ backend = "mongodb" /\ \E i \in DOMAIN plays : plays[i].id = songId /\ MongoSaved(i)

\* the history a statistics read sees has a record made from the entry
\* songId: songHistory (SQLite), the Song collection (MongoDB)
HistoryShows(songId) ==
    IF backend = "sqlite"
    THEN \E k \in DOMAIN songHistory : songHistory[k].id = songId
    ELSE \E k \in DOMAIN dbHistory : dbHistory[k].entry = songId

\* C13: in the step in which a song_played handler takes an entry out of the
\* queue and broadcasts the queue without it, the history a statistics read
\* sees already has the record of that entry, and the SQLite handler has
\* issued the INSERT for song_history.
C13_HistoryBeforeRemoval ==
    [][\A songId \in Shown :
        (PlayedTransition(songId) /\ HasId(songQueue, songId))
           => /\ ~HasId(songQueue', songId)
              /\ display' = <<songQueue'>>
              /\ out'.emit = <<songQueue'>>
              /\ HistoryShows(songId)'
              /\ backend = "sqlite"
                   => \E o \in dbOps' :
                          o.op = "addHistory" /\ o.id = songId
      ]_vars

\* the MongoDB-backed server has saved the document of a played entry and
\* broadcast the queue without the entry
C13_Witness ==
    /\ backend = "mongodb"
    /\ out.event.kind = "song_played"
    /\ out.event.found
    /\ out.emit = <<songQueue>>
    /\ \E k \in DOMAIN dbHistory : dbHistory[k].entry = out.event.id

\* C15: a failing persistence call neither undoes nor blocks the in-memory
\* transition.  MongoDB-backed song_played: when songLog.save() rejects, the
\* entry is still taken out of songQueue and the queue is still broadcast.
\* SQLite-backed song_played and confirm: the entry is removed (appended),
\* the queue broadcast and the reply sent in the step that issues the
\* write, and no execution of a write, rejected or not, changes songQueue or
\* the snapshot shown.
C15_FailedWriteKeepsTransition ==
    [][/\ \A i \in DOMAIN plays :
            (backend = "mongodb" /\ MongoSaveFailed(i) /\ HasId(songQueue, plays[i].id))
               => /\ ~HasId(songQueue', plays[i].id)
                  /\ out'.emit = <<songQueue'>>
       /\ \A songId \in Shown :
            (backend = "sqlite" /\ SongPlayed(songId))
               => /\ ~HasId(songQueue', songId)
                  /\ out'.emit = <<songQueue'>>
       /\ \A i \in DOMAIN confirms :
            (backend = "sqlite" /\ ProfileAdded(i))
               => /\ Len(songQueue') = Len(songQueue) + 1
                  /\ out'.emit = <<songQueue'>>
                  /\ out'.reply.kind = "added"
       /\ \A o \in dbOps : DbExec(o) => UNCHANGED <<songQueue, display>>
      ]_vars

\* a text message from u is handled
TextMessage(u, text) == Search(u, text) \/ Reject(u, text)

\* an upper-case letter and its lower-case form
CasePairs ==
    { <<"A", "a">>, <<"C", "c">>, <<"E", "e">>, <<"G", "g">>, <<"H", "h">>,
      <<"I", "i">>, <<"N", "n">>, <<"O", "o">>, <<"R", "r">>, <<"S", "s">> }

\* text equals target when the case of letters is ignored
EqualsIgnoringCase(text, target) ==
    /\ Len(text) = Len(target)
    /\ \A k \in DOMAIN text :
          \/ text[k] = target[k]
          \/ <<text[k], target[k]>> \in CasePairs
          \/ <<target[k], text[k]>> \in CasePairs

\* the texts equal, case-insensitively, to 'no' or 'no, search again'
RejectionTexts ==
    { text \in Texts :
        \/ EqualsIgnoringCase(text, <<"n", "o">>)
        \/ EqualsIgnoringCase(text, <<"n", "o", ",", " ", "s", "e", "a", "r",
                                      "c", "h", " ", "a", "g", "a", "i", "n">>) }

\* C16: a text message equal, case-insensitively, to 'no' or 'no, search
\* again' clears the registry entry of its sender and of nobody else, is
\* answered with the prompt to search again, starts no search and leaves
\* the queue, pending_songs and the writes in flight, the history and
\* playedToday unchanged.
C16_Rejection ==
    [][\A u \in Users, text \in RejectionTexts :
        TextMessage(u, text)
           => /\ activeConfirmations'[u] = NoToken
              /\ \A v \in Users \ {u} : activeConfirmations'[v] = activeConfirmations[v]
              /\ out'.reply.kind = "prompt"
              /\ out'.reply.user = u
              /\ out'.emit = <<>>
              /\ Len(searches') = Len(searches)
              /\ \A k \in DOMAIN searches : searches'[k].user = searches[k].user
              /\ UNCHANGED <<songQueue, dbPending, dbOps, songHistory,
                             dbHistory, playedToday>>
      ]_vars

\* an identity that held a confirmation has rejected it, and another
\* identity still holds its own
C16_Witness ==
    /\ out.reply.kind = "prompt"
    /\ activeConfirmations[out.reply.user] = NoToken
    /\ \E c \in cards : c.user = out.reply.user /\ <<c.user, c.confirmationId>> \notin redeemed
    /\ \E v \in Users : v # out.reply.user /\ activeConfirmations[v] # NoToken

\* the entry with id a stands before the entry with id b in q
Before(q, a, b) ==
    \E i, j \in DOMAIN q : i < j /\ q[i].id = a /\ q[j].id = b

\* C17: a confirmed entry is appended at the tail of songQueue, and two
\* entries that are in the queue before and after a step (of a confirm,
\* delete_song, song_played or any other handler) keep their relative order.
C17_InsertionOrder ==
    [][/\ \A i \in DOMAIN confirms :
            ProfileAdded(i)
               => /\ Len(songQueue') = Len(songQueue) + 1
                  /\ SubSeq(songQueue', 1, Len(songQueue)) = songQueue
                  /\ songQueue'[Len(songQueue')].name = confirms[i].songData.name
                  /\ songQueue'[Len(songQueue')].artist = confirms[i].songData.artist
       /\ \A a, b \in Shown :
            (Before(songQueue, a, b) /\ HasId(songQueue', a) /\ HasId(songQueue', b))
               => (Before(songQueue', a, b) /\ ~Before(songQueue', b, a))
      ]_vars

\* of three entries, the third appended by a confirmation behind the two
\* that were loaded, the one in the middle has been removed and the other
\* two are queued in the order they had
C17_Witness ==
    /\ out.event.kind \in {"delete_song", "song_played"}
    /\ out.event.found
    /\ out.event.id = 2
    /\ Len(songQueue) = 2
    /\ songQueue[1].id = 1
    /\ songQueue[2].id = 3

\* C18: in every reachable state, also after songQueue has been reloaded
\* from pending_songs at startup, no id occurs twice in songQueue.
C18_UniqueIds ==
    \A i, j \in DOMAIN songQueue : songQueue[i].id = songQueue[j].id => i = j

\* the server has restarted and reloaded two entries from pending_songs
C18_Witness ==
    /\ restarts > 0
    /\ Len(songQueue) = 2
    /\ songQueue = LoadedQueue(dbPending)

\* C19: the queue is emitted to a client when it connects and to all
\* clients in every step of the running server that changes songQueue (a
\* confirm that inserts, a delete_song, a song_played), so after every step
\* the snapshot emitted last, if the process has emitted one, equals
\* songQueue, entry for entry and in order.
C19_DisplayNeverStale ==
    [][/\ display' # <<>> => display'[1] = songQueue'
       /\ (songQueue' # songQueue /\ ~Restart)
             => (out'.emit = <<songQueue'>> /\ display' = <<songQueue'>>)
       /\ Connect => (out'.emit = <<songQueue>> /\ display' = <<songQueue>>)
      ]_vars

\* a delete_song has taken an entry out of a queue of two and the queue of
\* one has been broadcast
C19_Witness ==
    /\ out.event.kind = "delete_song"
    /\ out.event.found
    /\ Len(songQueue) = 1
    /\ display = <<songQueue>>

\* C20: a postback with a valid confirmationId whose pair is not
\* in songQueue makes the queue one entry longer, emits exactly one
\* update_queue broadcast and is answered with the success message naming
\* the track's title.
C20_ConfirmAdds ==
    [][\A i \in DOMAIN confirms :
        (ConfirmEnds(i) /\ ~PairInQueue(songQueue, confirms[i].songData))
           => /\ Len(songQueue') = Len(songQueue) + 1
              /\ out'.emit = <<songQueue'>>
              /\ out'.reply.kind = "added"
              /\ out'.reply.user = confirms[i].user
              /\ out'.reply.name = confirms[i].songData.name
      ]_vars

\* ---------------------------------------------------------------- C21
\* C21: exactly one reset timeout is pending in every state; each firing
\* leaves playedToday empty, so that hasBeenPlayedToday is false for every
\* pair, and leaves one timeout pending, set for the start of the day after
\* the firing; and whenever a midnight has made the timeout due, the reset
\* fires.
C21_DailyReset ==
    /\ [](Cardinality(timer) = 1)
    /\ [][ DailyReset =>
             /\ playedToday' = <<>>
             /\ \A p \in Pairs : ~hasBeenPlayedToday(p.name, p.artist)'
             /\ timer' = {day + 1}
         ]_vars
    /\ (ResetDue ~> ~ResetDue)

\* the reset has fired at two midnights in a row, the first one after a play
C21_Witness ==
    /\ day = 2
    /\ timer = {3}
    /\ songHistory # <<>>
    /\ playedToday = <<>>

\* ---------------------------------------------------------------- C22
\* C22: in each of the three servers, when the persistence target is
\* missing or unreachable at startup the server never listens and no event
\* is ever served.
C22_FatalConfiguration ==
    store = "unreachable" => (phase # "listening" /\ events = 0)

\* ---------------------------------------------------------------- C23
\* the play history the statistics of the server are computed from
PlayHistory == IF backend = "sqlite" THEN songHistory ELSE dbHistory

\* the artist string of the record, split on ", ", lists the artist
ListsArtist(record, artist) ==
    \E k \in DOMAIN record.artist :
        record.artist[k] # ", " /\ artist = <<record.artist[k]>>

\* the history records that list the artist / that have the song key
ArtistRecords(artist) == {i \in DOMAIN PlayHistory : ListsArtist(PlayHistory[i], artist)}
SongRecords(key) ==
    {i \in DOMAIN PlayHistory : key = <<PlayHistory[i].name, " - ">> \o PlayHistory[i].artist}

\* the names reported in a list of the response
Reported(list) == {list[k].name : k \in DOMAIN list}

\* C23: in every statistics response, the count reported for an artist is
\* the number of history records whose artist string, split on ", ", lists
\* the artist, the count reported for a song key is the number of history
\* records with that name and artist string, and fewer entries than the
\* limit means every artist and every song of the history is reported.
C23_StatisticsCounts ==
    \A k \in DOMAIN out.body :
        LET body == out.body[k]
        IN  body.status = 200 =>
              /\ \A j \in DOMAIN body.artists :
                    body.artists[j].count = Cardinality(ArtistRecords(body.artists[j].name))
              /\ \A j \in DOMAIN body.songs :
                    body.songs[j].count = Cardinality(SongRecords(body.songs[j].name))
              /\ Len(body.artists) < TopN =>
                    \A i \in DOMAIN PlayHistory : \A p \in DOMAIN PlayHistory[i].artist :
                        PlayHistory[i].artist[p] # ", " =>
                            <<PlayHistory[i].artist[p]>> \in Reported(body.artists)
              /\ Len(body.songs) < TopN =>
                    \A i \in DOMAIN PlayHistory :
                        <<PlayHistory[i].name, " - ">> \o PlayHistory[i].artist
                            \in Reported(body.songs)

\* ---------------------------------------------------------------- C24
\* the keys of the play history in its iteration order
HistorySongKeys == [i \in DOMAIN PlayHistory |-> SongKey(PlayHistory[i])]
HistoryArtistKeys == FlatMapArtists(PlayHistory)

\* the place at which the history lists the key first
FirstAt(keys, key) ==
    CHOOSE i \in DOMAIN keys : keys[i] = key /\ \A j \in 1..(i - 1) : keys[j] # key

\* the list has at most TopN entries, counts descending, equal counts in
\* the order of the history, and no key left out counts more than one kept
TopOrdered(list, keys) ==
    /\ Len(list) <= TopN
    /\ \A i, j \in DOMAIN list :
          i < j => /\ list[i].count >= list[j].count
                   /\ list[i].count = list[j].count
                         => FirstAt(keys, list[i].name) < FirstAt(keys, list[j].name)
    /\ \A k \in DOMAIN keys :
          keys[k] \notin Reported(list)
             => \A i \in DOMAIN list :
                   list[i].count >= Cardinality({j \in DOMAIN keys : keys[j] = keys[k]})

\* C24: in every statistics response the songs list and the artists list
\* have at most TopN entries, are sorted by count in descending order, keep
\* entries of equal count in history iteration order, and leave out no
\* entry that counts more than a returned one.
C24_StatisticsOrder ==
    \A k \in DOMAIN out.body :
        out.body[k].status = 200 =>
            /\ TopOrdered(out.body[k].songs, HistorySongKeys)
            /\ TopOrdered(out.body[k].artists, HistoryArtistKeys)

\* ---------------------------------------------------------------- C25
\* C25: a search that fails or finds no track issues no confirmation,
\* leaves the registry as it was, for every identity and whether it holds a
\* live confirmation or not, sends no card, and replies to the user with
\* the not-found or the error text.
C25_FailedSearchKeepsRegistry ==
    [][ \A i \in DOMAIN searches :
          (SearchFailed(i) \/ SearchEmpty(i))
             => /\ activeConfirmations' = activeConfirmations
                /\ nextToken' = nextToken
                /\ cards' = cards
                /\ out'.reply.kind \in {"notfound", "error"}
                /\ out'.reply.user = searches[i].user
      ]_vars

\* a search found nothing for a user who still holds the live confirmation
\* of an earlier search
C25_Witness ==
    /\ out.reply.kind = "notfound"
    /\ activeConfirmations[out.reply.user] # NoToken
    /\ \E c \in cards : c.user = out.reply.user
                          /\ c.confirmationId = activeConfirmations[out.reply.user]

\* ---------------------------------------------------------------- C26
\* C26: every step that ends the handling of a text message or of a
\* postback replies to the user of the event, and the step in which
\* searchTracks or getProfile failed replies with the error text.
C26_EveryEventReplied ==
    [][ /\ \A u \in Users, text \in RejectionTexts :
              Reject(u, text) => out'.reply.kind # "none" /\ out'.reply.user = u
        /\ \A u \in Users, c \in cards :
              ConfirmExpired(u, c) => out'.reply.kind # "none" /\ out'.reply.user = u
        /\ \A i \in DOMAIN searches :
              (SearchFailed(i) \/ SearchEmpty(i) \/ \E t \in Tracks : SearchFound(i, t))
                 => out'.reply.kind # "none" /\ out'.reply.user = searches[i].user
        /\ \A i \in DOMAIN searches : SearchFailed(i) => out'.reply.kind = "error"
        /\ \A i \in DOMAIN confirms :
              ConfirmEnds(i) => out'.reply.kind # "none" /\ out'.reply.user = confirms[i].user
        /\ \A i \in DOMAIN confirms : ProfileFailed(i) => out'.reply.kind = "error"
      ]_vars

\* ---------------------------------------------------------------- C27
\* C27: whatever the payload of the accepted postback carries, the entry
\* appended for it has the name and artist of the card on which its
\* confirmationId was sent to the identity.
C27_TokenBindsCandidate ==
    [][ \A i \in DOMAIN confirms :
          ProfileAdded(i)
             => \E c \in cards :
                   /\ c.user = confirms[i].user
                   /\ c.confirmationId = confirms[i].confirmationId
                   /\ c.name = songQueue'[Len(songQueue')].name
                   /\ c.artist = songQueue'[Len(songQueue')].artist
      ]_vars

\* ---------------------------------------------------------------- C28
\* C28: when the searches of two messages of one identity overlap, the
\* confirmation that stays redeemable is the one issued for the message
\* sent last, in whichever order the searches resolve: a search that
\* resolves after a message sent later was answered with a card leaves the
\* identity's registry entry as it is.
C28_LastSentWins ==
    [][ \A i \in DOMAIN searches, t \in Tracks :
          (SearchFound(i, t) /\ searches[i].late)
             => activeConfirmations'[searches[i].user]
                   = activeConfirmations[searches[i].user]
      ]_vars

\* ---------------------------------------------------------------- C29
\* the records of the history store written for the queue entry id
RecordsOf(id) ==
    {k \in DOMAIN dbHistory :
        id = IF backend = "sqlite" THEN dbHistory[k].id ELSE dbHistory[k].entry}

\* C29: the history store never holds two records written for the same
\* queue entry.
C29_MovedNotCopied ==
    \A id \in Shown : Cardinality(RecordsOf(id)) <= 1

\* ---------------------------------------------------------------- C30
\* C30: no history record is written for an entry that delete_song took out
\* of the queue: when the write of a song_played completes, its entry is
\* still in the queue or was played before (the store holds a record of
\* it), and a song_played for an id that is not in the queue issues no write.
C30_RemovedIsNeverPlayed ==
    [][ /\ \A i \in DOMAIN plays :
              MongoSaved(i) => (HasId(songQueue, plays[i].id) \/ RecordsOf(plays[i].id) # {})
        /\ \A id \in Shown :
              SongPlayedMissing(id) => (dbOps' = dbOps /\ plays' = plays)
      ]_vars

\* ---------------------------------------------------------------- C31
\* C31: the card sent for a candidate carries the result of
\* hasBeenPlayedToday at the moment the confirmation is issued, and the
\* entry appended for a postback has the flag of the card its
\* confirmationId was sent on, whatever playedToday holds by then.
C31_FlagFromPresentation ==
    [][ /\ \A i \in DOMAIN searches, t \in Tracks :
              SearchFound(i, t)
                 => \E c \in cards' \ cards :
                       /\ c.confirmationId = nextToken
                       /\ c.wasPlayedToday
                            = hasBeenPlayedToday(SongData(t).name, SongData(t).artist)
        /\ \A i \in DOMAIN confirms :
              ProfileAdded(i)
                 => \E c \in cards :
                       /\ c.confirmationId = confirms[i].confirmationId
                       /\ songQueue'[Len(songQueue')].wasPlayedToday = c.wasPlayedToday
      ]_vars

\* an entry queued with the flag false although its pair was played today:
\* the play came between the search and the confirmation
C31_Witness ==
    \E i \in DOMAIN songQueue :
        /\ ~songQueue[i].wasPlayedToday
        /\ hasBeenPlayedToday(songQueue[i].name, songQueue[i].artist)

\* C32: on the similarity-ranking server, when searchTracks resolves with
\* candidates whose best similarity to the query is below the threshold,
\* the reply is a plain text listing the first candidates, at most three,
\* no card is sent and no token is issued: the registry, including a live
\* token issued earlier, is unchanged.
C32_AmbiguousSearch ==
    [][ \A i \in DOMAIN searches, items \in Results :
            /\ searches' = RemoveAt(searches, i)
            /\ Ambiguous(searches[i].query, items)
            /\ SimAmbiguous(i, items) \/ SimFound(i, items)
            => /\ out'.reply.kind = "suggest"
               /\ out'.reply.user = searches[i].user
               /\ Len(out'.body[1]) <= 3
               /\ \A k \in DOMAIN out'.body[1] :
                     /\ out'.body[1][k][3] = items[k].name
                     /\ out'.body[1][k][5] = JoinArtists(items[k].artists)
               /\ cards' = cards
               /\ nextToken' = nextToken
               /\ activeConfirmations' = activeConfirmations
      ]_vars

\* three of four candidates were suggested to an identity whose earlier
\* token is still stored
C32_Witness ==
    /\ out.reply.kind = "suggest"
    /\ Len(out.body[1]) = 3
    /\ activeConfirmations[out.reply.user] # NoToken

\* C33: on the similarity-ranking server a confirm event with a valid token
\* for a (name, artist) that is already in the pending queue does not
\* append a second entry.
C33_SimilarityDuplicateRule ==
    [][ \A u \in Users, c \in cards :
            SimConfirmAdded(u, c) /\ PairInQueue(songQueue, c)
            => songQueue' = songQueue
      ]_vars

\* The most recent midnight of the deployment timezone, UTC+7, as an instant
BangkokMidnight(now) == (((now + 7) \div 24) * 24) - 7

\* C34: for every instant at which it is called, every document timestamp
\* and every host clock offset, hasBeenPlayedToday(name, artist) of the
\* MongoDB-backed server is true exactly when a document with that name and
\* artist has a timestamp at or after the most recent midnight of UTC+7
\* before the call; a document of the previous local day is never counted.
\* The query is one that the store answers.
C34_DayBoundary ==
    [][ \A i \in DOMAIN lookups :
            DayCheckResolved(i, FALSE)
            => (out'.body[1].played
                  <=> \E k \in DOMAIN dbHistory :
                         /\ dbHistory[k].name = lookups[i].name
                         /\ dbHistory[k].artist = lookups[i].artist
                         /\ dbHistory[k].timestamp >= BangkokMidnight(lookups[i].now))
      ]_vars

\* C35: a restart of the SQLite-backed server that happens when every
\* database write issued has been executed reloads the queue as it was:
\* the same entries, with the same fields, in the same order.
C35_RestartRecovery ==
    [][ Restart /\ dbOps = {} => songQueue' = songQueue ]_vars

\* C36: every credential fetch of getSpotifyToken, whether it succeeded or
\* failed, is eventually followed by another fetch.
C36_RenewalNeverStops ==
    (renewal \in {"scheduled", "stopped"}) ~> (renewal = "fetching")

\* C37 as stated: after a rejection of an identity has been handled, no
\* token is issued to that identity before it sends a new search; a search
\* it sent before the rejection, still awaiting the resolver when the
\* rejection is handled, issues none.
C37_RejectionIsFinal ==
    [][ /\ \A u \in Users, text \in RejectionTexts :
              Reject(u, text) => activeConfirmations'[u] = NoToken
        /\ \A i \in DOMAIN searches, t \in Tracks :
              SearchFound(i, t) => ~searches[i].rejected
      ]_vars

\* C37: after a rejection of an identity has been handled, the identity's
\* registry entry is empty and stays empty until a search of that identity
\* resolves with a track; that search can be one that the identity sent
\* before the rejection.
C37_RejectionUntilNextCard ==
    [][ /\ \A u \in Users, text \in RejectionTexts :
              Reject(u, text) => activeConfirmations'[u] = NoToken
        /\ \A u \in Users :
              (activeConfirmations[u] = NoToken /\ activeConfirmations'[u] # NoToken)
                 => \E i \in DOMAIN searches, t \in Tracks :
                       /\ searches[i].user = u
                       /\ SearchFound(i, t)
      ]_vars

\* a search sent before the rejection has been answered with a card, the
\* identity holding its token and having sent no search since the
\* rejection: another search it sent before is still pending
C37_Witness ==
    /\ out.reply.kind = "card"
    /\ activeConfirmations[out.reply.user] # NoToken
    /\ \E i \in DOMAIN searches :
          searches[i].user = out.reply.user /\ searches[i].rejected

\* C38: when getProfile rejects after a postback has redeemed its
\* confirmation, the queue, the pending store and the history stay as they
\* are and nothing is broadcast or replied, and the confirmation stays
\* consumed: a later postback with it, like every postback with a
\* confirmation that was redeemed, is answered 'expired'.
C38_ProfileFailureConsumesToken ==
    [][ /\ \A i \in DOMAIN confirms :
              ProfileFailed(i)
                 => /\ UNCHANGED <<songQueue, dbPending, dbOps, songHistory, dbHistory,
                                   playedToday>>
                    /\ out'.emit = <<>>
                    /\ out'.reply = NoReply
                    /\ activeConfirmations'[confirms[i].user] # confirms[i].confirmationId
        /\ \A u \in Users, c \in cards :
              (<<u, c.confirmationId>> \in redeemed /\ Confirm(u, c))
                 => /\ out'.reply.kind = "expired"
                    /\ UNCHANGED <<songQueue, confirms, activeConfirmations>>
      ]_vars

\* the postback sent again after its profile lookup failed has been
\* answered 'expired'; nothing was queued
C38_Witness ==
    /\ out.reply.kind = "expired"
    /\ <<out.reply.user, out.reply.cid>> \in redeemed
    /\ songQueue = <<>>
    /\ confirms = <<>>
    /\ nextId = 1

\* the identity whose event or suspended handler the step belongs to
StepOf(u) ==
    \/ \E text \in Texts : Search(u, text) \/ Reject(u, text)
    \/ \E c \in cards : Confirm(u, c)
    \/ \E i \in DOMAIN searches :
          /\ searches[i].user = u
          /\ SearchFailed(i) \/ SearchEmpty(i) \/ \E t \in Tracks : SearchFound(i, t)
    \/ \E i \in DOMAIN confirms :
          /\ confirms[i].user = u
          /\ ProfileFailed(i) \/ ProfileDuplicate(i) \/ ProfileAdded(i)

\* C39: a confirmation issued to one identity is never accepted in a
\* postback sent by another identity, and handling an event of an identity
\* (search, postback, rejection) never creates, replaces or clears the
\* registry entry of another identity.
C39_IdentityIsolation ==
    [][ /\ \A u \in Users, c \in cards :
              ConfirmAccepted(u, c) => c.user = u
        /\ \A u \in Users :
              StepOf(u) => \A v \in Users \ {u} :
                              activeConfirmations'[v] = activeConfirmations[v]
      ]_vars

\* an identity that holds a confirmation of its own has sent the postback
\* of another identity's card and was answered 'expired'; the other
\* identity's confirmation is still stored
C39_Witness ==
    /\ out.reply.kind = "expired"
    /\ activeConfirmations[out.reply.user] # NoToken
    /\ \E c \in cards :
          /\ c.confirmationId = out.reply.cid
          /\ c.user # out.reply.user
          /\ activeConfirmations[c.user] = c.confirmationId

\* C40: the duplicate rule looks at the pending queue only.  When the
\* profile lookup of a redeemed postback resolves and no entry of the queue
\* has its (name, artist), an entry with a fresh id is appended, also when
\* the pair is in the history or was played today because an earlier entry
\* with it left the queue by song_played (or was removed by delete_song).
C40_DuplicateRuleIsQueueOnly ==
    [][ \A i \in DOMAIN confirms :
            (ProfileResolved(i) /\ ~PairInQueue(songQueue, confirms[i].songData))
               => /\ Len(songQueue') = Len(songQueue) + 1
                  /\ SubSeq(songQueue', 1, Len(songQueue)) = songQueue
                  /\ LET added == songQueue'[Len(songQueue')]
                     IN  /\ added.name = confirms[i].songData.name
                         /\ added.artist = confirms[i].songData.artist
                         /\ \A k \in DOMAIN songQueue : songQueue[k].id # added.id
                         /\ \A k \in DOMAIN songHistory : songHistory[k].id # added.id
                         /\ \A k \in DOMAIN dbPending : dbPending[k].id # added.id
                         /\ \A k \in DOMAIN dbHistory : dbHistory[k].id # added.id
                  /\ out'.reply.kind = "added"
      ]_vars

\* a pair that was played today, and is in the history, has been queued
\* again under a new id
C40_Witness ==
    /\ out.reply.kind = "added"
    /\ songQueue # <<>>
    /\ LET added == songQueue[Len(songQueue)]
       IN  /\ hasBeenPlayedToday(added.name, added.artist)
           /\ \E k \in DOMAIN songHistory :
                 /\ songHistory[k].name = added.name
                 /\ songHistory[k].artist = added.artist
                 /\ songHistory[k].id # added.id

====
